---- MODULE Spec2Model ----
(***************************************************************************)
(* The game-state synchronization engine of game_state_agent:              *)
(* GameState.apply_update (models.py) and StateManager (state_manager.py). *)
(*                                                                         *)
(* Python's Optional[T] is modelled as a set with at most one element:     *)
(* None is {} and a present value v is {v}.  A listener is opaque to the   *)
(* engine: when invoked it either returns or raises an Exception.          *)
(***************************************************************************)
EXTENDS Integers, Sequences, FiniteSets, TLC

\* ---- bounds of the model ------------------------------------------------
MaxListeners == 2
MaxClock == 2
MaxCalls == 3
MaxDepth == 2

\* ---- Optional values ----------------------------------------------------
None == {}
Some(v) == {v}
Get(o) == CHOOSE v \in o : TRUE

\* Python truthiness of an Optional[str]: neither None nor the empty string
Truthy(o) == o # None /\ Get(o) # ""

\* ---- data model (models.py) ---------------------------------------------
UpdateType == {"noop", "location", "inventory", "both"}

RuneArc == [name |-> "Rune Arc", quantity |-> 1]
Flask == [name |-> "Flask", quantity |-> 2]

InventoryItem == {RuneArc, Flask}

\* the inventories the model draws from: empty, one item, two items
ItemLists == { <<>>, <<RuneArc>>, <<Flask, RuneArc>> }

LocationNames == {"Unknown", "Limgrave"}

StateUpdate ==
  [ update_type : UpdateType,
    new_location : {None} \cup { Some(l) : l \in LocationNames \cup {""} },
    inventory_items : {None} \cup { Some(s) : s \in ItemLists },
    reasoning : {"seen"} ]

GameState == [ player_location : LocationNames, inventory : ItemLists ]

DefaultGameState == [ player_location |-> "Unknown", inventory |-> <<>> ]

\* the callbacks that can be registered; redis_save is the persistence
\* lambda the constructor registers when a store is supplied
UserCallbacks == {"L1"}
Callbacks == UserCallbacks \cup {"redis_save"}

VARIABLES
  state,        \* StateManager.state: the canonical GameState
  listeners,    \* StateManager._listeners, in registration order
  last_update,  \* StateManager._last_update: None, or a clock reading
  call,         \* what the most recent operation was given, did and returned
  journal,      \* the caller's record of a run of process_update calls
  store,        \* the value Redis holds under GAME_STATE_KEY: None, or a JSON text
                \* (followed in SpecStore; elsewhere the listeners are opaque
                \* and the store is not part of the run)

  producer,     \* the Update object a producer handed over and still holds
  threads,      \* the process_update calls of concurrent producers, by thread
  stack,        \* the process_update calls in progress on one thread, innermost
                \* last (a listener may call the engine from its callback)
  agent,        \* GameStateAgent: _running and the position of its tracking loop
  coach,        \* Coach: _history, the semantic cache and the last get_response
  ptt,          \* PTTHandler: _is_pressed and the callbacks it has fired
  recorder      \* AudioRecorder: _recording, _stream, _audio_chunks and the
                \* input stream delivering chunks on the audio thread

\* the components that run apart from the StateManager
apart == <<agent, coach, ptt, recorder>>

vars == <<state, listeners, last_update, call, journal, store, producer, threads, stack,
          agent, coach, ptt, recorder>>

\* ---- GameState.apply_update ---------------------------------------------
\* the equality test of line 63 left out
apply_update_no_equality(self, update) ==
  IF update.update_type = "noop" THEN [state |-> self, changed |-> FALSE]
  ELSE
    LET loc == update.update_type \in {"location", "both"}
                 /\ Truthy(update.new_location)
        s1 == IF loc THEN [self EXCEPT !.player_location = Get(update.new_location)]
              ELSE self
        inv == update.update_type \in {"inventory", "both"}
                 /\ update.inventory_items # None
        s2 == IF inv THEN [s1 EXCEPT !.inventory = Get(update.inventory_items)]
              ELSE s1
    IN [state |-> s2, changed |-> loc \/ inv]

\* the kind test of line 67 left out: items applied whatever the kind
apply_update_items_any_kind(self, update) ==
  IF update.update_type = "noop" THEN [state |-> self, changed |-> FALSE]
  ELSE
    LET loc == update.update_type \in {"location", "both"}
                 /\ Truthy(update.new_location)
                 /\ Get(update.new_location) # self.player_location
        s1 == IF loc THEN [self EXCEPT !.player_location = Get(update.new_location)]
              ELSE self
        inv == update.inventory_items # None
        s2 == IF inv THEN [s1 EXCEPT !.inventory = Get(update.inventory_items)]
              ELSE s1
    IN [state |-> s2, changed |-> loc \/ inv]

\* line 68 as a truthiness test: an empty list taken for an absent one
apply_update_empty_is_absent(self, update) ==
  IF update.update_type = "noop" THEN [state |-> self, changed |-> FALSE]
  ELSE
    LET loc == update.update_type \in {"location", "both"}
                 /\ Truthy(update.new_location)
                 /\ Get(update.new_location) # self.player_location
        s1 == IF loc THEN [self EXCEPT !.player_location = Get(update.new_location)]
              ELSE self
        inv == update.update_type \in {"inventory", "both"}
                 /\ update.inventory_items # None
                 /\ Get(update.inventory_items) # <<>>
        s2 == IF inv THEN [s1 EXCEPT !.inventory = Get(update.inventory_items)]
              ELSE s1
    IN [state |-> s2, changed |-> loc \/ inv]

\* line 67 as an elif: the items of a BOTH update never looked at
apply_update_elif(self, update) ==
  IF update.update_type = "noop" THEN [state |-> self, changed |-> FALSE]
  ELSE
    LET loc == update.update_type \in {"location", "both"}
                 /\ Truthy(update.new_location)
                 /\ Get(update.new_location) # self.player_location
        s1 == IF loc THEN [self EXCEPT !.player_location = Get(update.new_location)]
              ELSE self
        inv == update.update_type = "inventory"
                 /\ update.inventory_items # None
        s2 == IF inv THEN [s1 EXCEPT !.inventory = Get(update.inventory_items)]
              ELSE s1
    IN [state |-> s2, changed |-> loc \/ inv]

\* line 68 with an equality test like the one of line 63
apply_update_items_equality(self, update) ==
  IF update.update_type = "noop" THEN [state |-> self, changed |-> FALSE]
  ELSE
    LET loc == update.update_type \in {"location", "both"}
                 /\ Truthy(update.new_location)
                 /\ Get(update.new_location) # self.player_location
        s1 == IF loc THEN [self EXCEPT !.player_location = Get(update.new_location)]
              ELSE self
        inv == update.update_type \in {"inventory", "both"}
                 /\ update.inventory_items # None
                 /\ Get(update.inventory_items) # self.inventory
        s2 == IF inv THEN [s1 EXCEPT !.inventory = Get(update.inventory_items)]
              ELSE s1
    IN [state |-> s2, changed |-> loc \/ inv]

\* line 68 left out and an absent list read as the empty one
apply_update_absent_items_clear(self, update) ==
  IF update.update_type = "noop" THEN [state |-> self, changed |-> FALSE]
  ELSE
    LET loc == update.update_type \in {"location", "both"}
                 /\ Truthy(update.new_location)
                 /\ Get(update.new_location) # self.player_location
        s1 == IF loc THEN [self EXCEPT !.player_location = Get(update.new_location)]
              ELSE self
        inv == update.update_type \in {"inventory", "both"}
        s2 == IF inv
              THEN [s1 EXCEPT !.inventory = IF update.inventory_items = None THEN <<>>
                                            ELSE Get(update.inventory_items)]
              ELSE s1
    IN [state |-> s2, changed |-> loc \/ (inv /\ update.inventory_items # None)]

\* line 63 as an `is not None` test: the empty location applied
apply_update_empty_location_applied(self, update) ==
  IF update.update_type = "noop" THEN [state |-> self, changed |-> FALSE]
  ELSE
    LET loc == update.update_type \in {"location", "both"}
                 /\ update.new_location # None
                 /\ Get(update.new_location) # self.player_location
        s1 == IF loc THEN [self EXCEPT !.player_location = Get(update.new_location)]
              ELSE self
        inv == update.update_type \in {"inventory", "both"}
                 /\ update.inventory_items # None
        s2 == IF inv THEN [s1 EXCEPT !.inventory = Get(update.inventory_items)]
              ELSE s1
    IN [state |-> s2, changed |-> loc \/ inv]

\* the kind test of line 62 left out: a location applied whatever the kind
apply_update_location_any_kind(self, update) ==
  IF update.update_type = "noop" THEN [state |-> self, changed |-> FALSE]
  ELSE
    LET loc == Truthy(update.new_location)
                 /\ Get(update.new_location) # self.player_location
        s1 == IF loc THEN [self EXCEPT !.player_location = Get(update.new_location)]
              ELSE self
        inv == update.update_type \in {"inventory", "both"}
                 /\ update.inventory_items # None
        s2 == IF inv THEN [s1 EXCEPT !.inventory = Get(update.inventory_items)]
              ELSE s1
    IN [state |-> s2, changed |-> loc \/ inv]

\* models.py 55-72.  `loc` is the test of lines 62-63, `inv` that of lines
\* 67-68; the result is the GameState after the call and the returned flag.
apply_update(self, update) ==
  IF update.update_type = "noop" THEN [state |-> self, changed |-> FALSE]
  ELSE
    LET loc == update.update_type \in {"location", "both"}
                 /\ Truthy(update.new_location)
                 /\ Get(update.new_location) # self.player_location
        s1 == IF loc THEN [self EXCEPT !.player_location = Get(update.new_location)]
              ELSE self
        inv == update.update_type \in {"inventory", "both"}
                 /\ update.inventory_items # None
        s2 == IF inv THEN [s1 EXCEPT !.inventory = Get(update.inventory_items)]
              ELSE s1
    IN [state |-> s2, changed |-> loc \/ inv]

\* ---- the listener loop of process_update --------------------------------
\* One invocation listener(self.state, update): what the listener was
\* passed, the timestamp the engine held at that moment, whether the
\* listener raised, and whether the except clause of line 100 caught it.
Invocation(listener, st, update, last, failing, caught) ==
  [ listener |-> listener, state |-> st, update |-> update,
    last_update |-> last, raised |-> failing, caught |-> failing /\ caught ]

\* the except clause leaving the loop: the first raise is logged and ends
\* the round
RECURSIVE notify_breaks_at_raise(_, _, _, _, _, _)
notify_breaks_at_raise(i, ls, st, update, last, failing) ==
  IF i > Len(ls) THEN <<>>
  ELSE IF ls[i] \in failing
       THEN <<Invocation(ls[i], st, update, last, TRUE, TRUE)>>
       ELSE <<Invocation(ls[i], st, update, last, FALSE, TRUE)>>
              \o notify_breaks_at_raise(i + 1, ls, st, update, last, failing)

\* the loop without its try/except: the first raise ends the round
RECURSIVE notify_stops_at_raise(_, _, _, _, _, _)
notify_stops_at_raise(i, ls, st, update, last, failing) ==
  IF i > Len(ls) THEN <<>>
  ELSE IF ls[i] \in failing
       THEN <<Invocation(ls[i], st, update, last, TRUE, FALSE)>>
       ELSE <<Invocation(ls[i], st, update, last, FALSE, FALSE)>>
              \o notify_stops_at_raise(i + 1, ls, st, update, last, failing)

\* state_manager.py 97-101, from the i-th listener on
RECURSIVE notify(_, _, _, _, _, _)
notify(i, ls, st, update, last, failing) ==
  IF i > Len(ls) THEN <<>>
  ELSE <<Invocation(ls[i], st, update, last, ls[i] \in failing, TRUE)>>
         \o notify(i + 1, ls, st, update, last, failing)

Raised(invoked) == { i \in 1..Len(invoked) : invoked[i].raised }

\* the invocations whose exception line 101 logged
Caught(invoked) == { i \in 1..Len(invoked) : invoked[i].caught }

\* an exception no except clause caught leaves process_update
Escaped(invoked) == \E i \in 1..Len(invoked) : invoked[i].raised /\ ~invoked[i].caught

NoUpdate ==
  [ update_type |-> "noop", new_location |-> None, inventory_items |-> None,
    reasoning |-> "" ]

\* op: the operation; update: its argument; ret: the value returned;
\* round: the listener loop was entered; invoked: the invocations made, in
\* order; errors: the "Listener error" records logged; raised: the exception
\* the operation ended with; repeated: a process_update call given the update
\* of the process_update call right before it, which had returned True;
\* args: the arguments of an operation that takes no update; summary: the
\* dict get_state_summary returned; value: the GameState load returned
Outcome(op, update, ret, round, invoked, raised) ==
  [ op |-> op, update |-> update, ret |-> ret, round |-> round,
    invoked |-> invoked, errors |-> Cardinality(Caught(invoked)),
    raised |-> IF Escaped(invoked) THEN "Exception" ELSE raised,
    repeated |-> FALSE, args |-> None, summary |-> None, value |-> None ]

\* ---- StateManager -------------------------------------------------------
\* the constructor ignoring its initial_state argument
Constructed_default_state(initial_state, redis_store) ==
  [ state |-> DefaultGameState,
    listeners |-> IF redis_store THEN <<"redis_save">> ELSE <<>>,
    last_update |-> None,
    call |-> [ Outcome("__init__", NoUpdate, FALSE, FALSE, <<>>, "none")
                 EXCEPT !.args = Some([ initial_state |-> initial_state,
                                        redis_store |-> redis_store ]) ] ]

\* lines 39-41 left out: a store is kept but never written to
Constructed_store_unregistered(initial_state, redis_store) ==
  [ state |-> IF initial_state # None THEN Get(initial_state) ELSE DefaultGameState,
    listeners |-> <<>>,
    last_update |-> None,
    call |-> [ Outcome("__init__", NoUpdate, FALSE, FALSE, <<>>, "none")
                 EXCEPT !.args = Some([ initial_state |-> initial_state,
                                        redis_store |-> redis_store ]) ] ]

\* state_manager.py 21-45: StateManager(initial_state, redis_store).  A
\* GameState is always truthy, so `initial_state or GameState()` is the
\* argument unless it is None.
Constructed(initial_state, redis_store) ==
  [ state |-> IF initial_state # None THEN Get(initial_state) ELSE DefaultGameState,
    listeners |-> IF redis_store THEN <<"redis_save">> ELSE <<>>,
    last_update |-> None,
    call |-> [ Outcome("__init__", NoUpdate, FALSE, FALSE, <<>>, "none")
                 EXCEPT !.args = Some([ initial_state |-> initial_state,
                                        redis_store |-> redis_store ]) ] ]

Construct ==
  \E initial_state \in {None} \cup { Some(s) : s \in GameState },
     redis_store \in BOOLEAN :
    LET c == Constructed(initial_state, redis_store) IN
      /\ state = c.state
      /\ listeners = c.listeners
      /\ last_update = c.last_update
      /\ call = c.call

\* a run with one sequential caller that keeps no Update object: nothing
\* held, no concurrent call, no call in progress between the steps
NoProducer == [ update |-> None, id |-> 0, bound |-> 0 ]
NoThreads == <<>>
NoStack == <<>>

\* main.py 25-28: a GameStateAgent just constructed, its loop not started
NoAgent ==
  [ pc |-> "new", running |-> FALSE, stopped |-> FALSE, stopped_at |-> "none",
    update |-> None, frame |-> 0, errors |-> 0, raised |-> FALSE ]

\* coach.py 107-127, semantic_cache.py 13-56: a Coach before its first
\* get_response, built without a cache
NoReply == [ kind |-> "none", score_kind |-> "absent", score |-> 0, response |-> None ]

NoAsk ==
  [ op |-> "__init__", message |-> "", screenshot |-> None, searched |-> FALSE,
    found |-> None, llm_called |-> FALSE, stored |-> FALSE, ret |-> None,
    raised |-> FALSE, enabled |-> FALSE, reply |-> NoReply, set_raises |-> FALSE,
    ok |-> FALSE ]

NoCoach ==
  [ max_history |-> 0, history |-> <<>>, cache |-> None, entries |-> {},
    asked |-> NoAsk ]

\* ptt.py 14-23: a PTTHandler with the key up and no callback fired
NoPTT == [ is_pressed |-> FALSE, listening |-> FALSE, held |-> {}, fired |-> <<>>,
           quit |-> FALSE ]

\* audio.py 16-29: an AudioRecorder that has not recorded
NoRecorder ==
  [ pc |-> "idle", recording |-> FALSE, stream |-> None, chunks |-> <<>>,
    live |-> {}, pending |-> {}, starts |-> 0, delivered |-> 0,
    started |-> FALSE, returned |-> None ]

Sequential ==
  /\ producer = NoProducer /\ threads = NoThreads /\ stack = NoStack
  /\ agent = NoAgent /\ coach = NoCoach /\ ptt = NoPTT /\ recorder = NoRecorder

\* no run is being recorded
NoJournal == [ origin |-> None, updates |-> <<>>, flags |-> <<>>, delivered |-> <<>> ]

Init == Construct /\ journal = NoJournal /\ store = None /\ Sequential

add_listener(callback) ==
  /\ Len(listeners) < MaxListeners
  /\ listeners' = Append(listeners, callback)
  /\ call' = [ Outcome("add_listener", NoUpdate, FALSE, FALSE, <<>>, "none")
                 EXCEPT !.args = Some(callback) ]
  /\ UNCHANGED <<state, last_update>>

\* list.remove: drops the first occurrence, ValueError when there is none
RemoveFirst(ls, x) ==
  LET i == CHOOSE k \in 1..Len(ls) : ls[k] = x /\ \A j \in 1..(k - 1) : ls[j] # x
  IN SubSeq(ls, 1, i - 1) \o SubSeq(ls, i + 1, Len(ls))

\* list.discard-like removal: an absent callback passed over in silence
remove_listener_ignores_absent(callback) ==
  /\ listeners' = IF \E k \in 1..Len(listeners) : listeners[k] = callback
                  THEN RemoveFirst(listeners, callback) ELSE listeners
  /\ call' = [ Outcome("remove_listener", NoUpdate, FALSE, FALSE, <<>>, "none")
                 EXCEPT !.args = Some(callback) ]
  /\ UNCHANGED <<state, last_update>>

remove_listener(callback) ==
  /\ IF \E k \in 1..Len(listeners) : listeners[k] = callback
     THEN /\ listeners' = RemoveFirst(listeners, callback)
          /\ call' = [ Outcome("remove_listener", NoUpdate, FALSE, FALSE, <<>>, "none")
                         EXCEPT !.args = Some(callback) ]
     ELSE /\ listeners' = listeners
          /\ call' = [ Outcome("remove_listener", NoUpdate, FALSE, FALSE, <<>>,
                               "ValueError")
                         EXCEPT !.args = Some(callback) ]
  /\ UNCHANGED <<state, last_update>>

\* state_manager.py 108-118.  f"{item.name} x{item.quantity}" per item, in
\* the order of the inventory; isoformat() of the timestamp, or None (a
\* datetime is always truthy).
FormatItem(item) == item.name \o " x" \o ToString(item.quantity)

isoformat(t) == "T" \o ToString(t)

\* the item strings built from the inventory back to front
StateSummary_reversed(st, last) ==
  [ location |-> st.player_location,
    inventory_count |-> Len(st.inventory),
    inventory_items |-> [ i \in 1..Len(st.inventory) |->
                          FormatItem(st.inventory[Len(st.inventory) + 1 - i]) ],
    last_update |-> IF last # None THEN Some(isoformat(Get(last))) ELSE None ]

StateSummary(st, last) ==
  [ location |-> st.player_location,
    inventory_count |-> Len(st.inventory),
    inventory_items |-> [ i \in 1..Len(st.inventory) |-> FormatItem(st.inventory[i]) ],
    last_update |-> IF last # None THEN Some(isoformat(Get(last))) ELSE None ]

get_state_summary ==
  /\ call' = [ Outcome("get_state_summary", NoUpdate, FALSE, FALSE, <<>>, "none")
                 EXCEPT !.summary = Some(StateSummary(state, last_update)) ]
  /\ UNCHANGED <<state, listeners, last_update>>

\* ---- GameStateStore (redis_store.py) --------------------------------------
\* A JSON text is modelled as the sequence of its tokens; a string token
\* carries its quotes, a number token is the decimal numeral.
Quote(s) == "\"" \o s \o "\""

JsonStrings == LocationNames \cup { item.name : item \in InventoryItem }
JsonNumbers == { item.quantity : item \in InventoryItem }

IsString(tok) == \E s \in JsonStrings : Quote(s) = tok
IsNumber(tok) == \E n \in JsonNumbers : ToString(n) = tok
Unquote(tok) == CHOOSE s \in JsonStrings : Quote(s) = tok
ParseInt(tok) == CHOOSE n \in JsonNumbers : ToString(n) = tok

\* InventoryItem.model_dump_json: {"name":...,"quantity":...}
dump_item(item) ==
  << "{", Quote("name"), ":", Quote(item.name), ",",
     Quote("quantity"), ":", ToString(item.quantity), "}" >>

RECURSIVE dump_items(_)
dump_items(items) ==
  IF items = <<>> THEN <<>>
  ELSE dump_item(Head(items))
         \o (IF Len(items) > 1 THEN <<",">> ELSE <<>>)
         \o dump_items(Tail(items))

\* the inventory written last item first
model_dump_json_reversed(st) ==
  << "{", Quote("player_location"), ":", Quote(st.player_location), ",",
     Quote("inventory"), ":", "[" >>
    \o dump_items([ i \in 1..Len(st.inventory) |->
                      st.inventory[Len(st.inventory) + 1 - i] ])
    \o << "]", "}" >>

\* GameState.model_dump_json (redis_store.py 48): the fields in declaration
\* order, the inventory as an array in list order
model_dump_json(st) ==
  << "{", Quote("player_location"), ":", Quote(st.player_location), ",",
     Quote("inventory"), ":", "[" >>
    \o dump_items(st.inventory)
    \o << "]", "}" >>

\* one InventoryItem object read at token i; None when the tokens there are
\* not such an object
parse_item(toks, i) ==
  IF /\ i + 8 <= Len(toks)
     /\ toks[i] = "{" /\ toks[i + 1] = Quote("name") /\ toks[i + 2] = ":"
     /\ IsString(toks[i + 3]) /\ toks[i + 4] = ","
     /\ toks[i + 5] = Quote("quantity") /\ toks[i + 6] = ":"
     /\ IsNumber(toks[i + 7]) /\ toks[i + 8] = "}"
  THEN Some([ name |-> Unquote(toks[i + 3]), quantity |-> ParseInt(toks[i + 7]) ])
  ELSE None

\* the items of an array whose first item starts at token i, and the
\* position of the closing bracket; None when the array is malformed
RECURSIVE parse_items(_, _)
parse_items(toks, i) ==
  LET item == parse_item(toks, i) IN
    IF item = None \/ i + 9 > Len(toks) THEN None
    ELSE IF toks[i + 9] = "]"
         THEN Some([ items |-> <<Get(item)>>, end |-> i + 9 ])
         ELSE IF toks[i + 9] = ","
              THEN LET rest == parse_items(toks, i + 10) IN
                     IF rest = None THEN None
                     ELSE Some([ items |-> <<Get(item)>> \o Get(rest).items,
                                 end |-> Get(rest).end ])
              ELSE None

\* GameState.model_validate_json (redis_store.py 63): the GameState the text
\* denotes, or None when validation fails
model_validate_json(toks) ==
  IF /\ Len(toks) >= 10
     /\ toks[1] = "{" /\ toks[2] = Quote("player_location") /\ toks[3] = ":"
     /\ IsString(toks[4]) /\ toks[5] = ","
     /\ toks[6] = Quote("inventory") /\ toks[7] = ":" /\ toks[8] = "["
  THEN LET arr == IF toks[9] = "]" THEN Some([ items |-> <<>>, end |-> 9 ])
                  ELSE parse_items(toks, 9)
       IN IF arr # None /\ Len(toks) = Get(arr).end + 1 /\ toks[Len(toks)] = "}"
          THEN Some([ player_location |-> Unquote(toks[4]),
                      inventory |-> Get(arr).items ])
          ELSE None
  ELSE None

\* SET only when the key is absent: the first value written is kept
SaveResult_set_if_absent(kv, st) ==
  IF kv = None THEN Some(model_dump_json(st)) ELSE kv

\* redis_store.py 42-50: the value under the key after save(st)
SaveResult(kv, st) == Some(model_dump_json(st))

\* redis_store.py 52-65: what load() returns, or the error it ends with
LoadResult(kv) ==
  IF kv = None THEN [ value |-> None, raised |-> "none" ]
  ELSE LET st == model_validate_json(Get(kv)) IN
         [ value |-> st,
           raised |-> IF st = None THEN "ValidationError" ELSE "none" ]

\* redis_store.py 67-74: the number of keys DEL removed, compared with 0
DeleteResult(kv) == [ store |-> None, ret |-> kv # None ]

\* state_manager.py 40: the persistence listener is redis_store.save(state);
\* an invocation of it that raised wrote nothing
RECURSIVE Saved(_, _)
Saved(kv, invoked) ==
  IF invoked = <<>> THEN kv
  ELSE Saved(IF Head(invoked).listener = "redis_save" /\ ~Head(invoked).raised
             THEN SaveResult(kv, Head(invoked).state) ELSE kv,
             Tail(invoked))

save(st) ==
  /\ store' = SaveResult(store, st)
  /\ call' = [ Outcome("save", NoUpdate, FALSE, FALSE, <<>>, "none")
                 EXCEPT !.args = Some(st) ]
  /\ UNCHANGED <<state, listeners, last_update>>

load ==
  /\ call' = [ Outcome("load", NoUpdate, FALSE, FALSE, <<>>, LoadResult(store).raised)
                 EXCEPT !.value = LoadResult(store).value ]
  /\ UNCHANGED <<state, listeners, last_update, store>>

delete ==
  /\ store' = DeleteResult(store).store
  /\ call' = Outcome("delete", NoUpdate, DeleteResult(store).ret, FALSE, <<>>, "none")
  /\ UNCHANGED <<state, listeners, last_update>>

\* the fast path of line 78 and the test of line 86 left out
ProcessResult_notify_every_call(self, ls, last, update, now, failing) ==
  LET r == apply_update(self, update) IN
    [ state |-> r.state, last_update |-> Some(now),
      call |-> Outcome("process_update", update, r.changed, TRUE,
                       notify(1, ls, r.state, update, Some(now), failing),
                       "none") ]

\* the returned flag cleared by a failing listener
ProcessResult_returns_dispatch_ok(self, ls, last, update, now, failing) ==
  IF update.update_type = "noop"
  THEN [ state |-> self, last_update |-> last,
         call |-> Outcome("process_update", update, FALSE, FALSE, <<>>, "none") ]
  ELSE
    LET r == apply_update(self, update)
        invoked == notify(1, ls, r.state, update, Some(now), failing)
    IN
    IF r.changed
    THEN [ state |-> r.state, last_update |-> Some(now),
           call |-> Outcome("process_update", update, Raised(invoked) = {}, TRUE,
                            invoked, "none") ]
    ELSE [ state |-> r.state, last_update |-> last,
           call |-> Outcome("process_update", update, FALSE, FALSE, <<>>, "none") ]

\* line 87 moved below the loop: the listeners run before the timestamp is set
ProcessResult_notify_before_timestamp(self, ls, last, update, now, failing) ==
  IF update.update_type = "noop"
  THEN [ state |-> self, last_update |-> last,
         call |-> Outcome("process_update", update, FALSE, FALSE, <<>>, "none") ]
  ELSE
    LET r == apply_update(self, update) IN
    IF r.changed
    THEN [ state |-> r.state, last_update |-> Some(now),
           call |-> Outcome("process_update", update, TRUE, TRUE,
                            notify(1, ls, r.state, update, last, failing),
                            "none") ]
    ELSE [ state |-> r.state, last_update |-> last,
           call |-> Outcome("process_update", update, FALSE, FALSE, <<>>, "none") ]

\* state_manager.py 69-106.
\* The effect of process_update(update) when datetime.now() reads `now` and
\* the listeners in `failing` raise: the new state, the new timestamp and the
\* Outcome of the call.
ProcessResult(self, ls, last, update, now, failing) ==
  IF update.update_type = "noop"
  THEN [ state |-> self, last_update |-> last,
         call |-> Outcome("process_update", update, FALSE, FALSE, <<>>, "none") ]
  ELSE
    LET r == apply_update(self, update) IN
    IF r.changed
    THEN [ state |-> r.state, last_update |-> Some(now),
           call |-> Outcome("process_update", update, TRUE, TRUE,
                            notify(1, ls, r.state, update, Some(now), failing),
                            "none") ]
    ELSE [ state |-> r.state, last_update |-> last,
           call |-> Outcome("process_update", update, FALSE, FALSE, <<>>, "none") ]

\* datetime.now() is read and the listeners run only when the merge reports
\* a change: only then do the clock reading and the listeners' outcomes vary.
Readings(self, update) ==
  IF update.update_type # "noop" /\ apply_update(self, update).changed
  THEN 1..MaxClock ELSE {1}

Failures(self, ls, update) ==
  IF update.update_type # "noop" /\ apply_update(self, update).changed
  THEN SUBSET { ls[i] : i \in 1..Len(ls) } ELSE {{}}

process_update(update) ==
  \E now \in Readings(state, update), failing \in Failures(state, listeners, update) :
    LET p == ProcessResult(state, listeners, last_update, update, now, failing) IN
      /\ state' = p.state
      /\ last_update' = p.last_update
      /\ call' = [p.call EXCEPT !.repeated =
                    call.op = "process_update" /\ call.ret /\ call.update = update]
      /\ UNCHANGED listeners

Next ==
  \/ \E callback \in UserCallbacks :
       add_listener(callback) /\ UNCHANGED <<journal, store, producer, threads, stack, apart>>
  \/ \E callback \in UserCallbacks :
       remove_listener(callback) /\ UNCHANGED <<journal, store, producer, threads, stack, apart>>
  \/ \E update \in StateUpdate :
       process_update(update) /\ UNCHANGED <<journal, store, producer, threads, stack, apart>>
  \/ get_state_summary /\ UNCHANGED <<journal, store, producer, threads, stack, apart>>

Spec == Init /\ [][Next]_vars

\* ---- a run of calls: the loop of main.py feeding process_update ----------
\* The updates of a recorded run: the three of the scenario (a location, an
\* inventory, a noop) and a BOTH update that undoes the first two.
SeqUpdates ==
  { [update_type |-> "location", new_location |-> Some("Limgrave"),
     inventory_items |-> None, reasoning |-> "seen"],
    [update_type |-> "inventory", new_location |-> None,
     inventory_items |-> Some(<<RuneArc>>), reasoning |-> "seen"],
    [update_type |-> "noop", new_location |-> None,
     inventory_items |-> None, reasoning |-> "seen"],
    [update_type |-> "both", new_location |-> Some("Unknown"),
     inventory_items |-> Some(<<>>), reasoning |-> "seen"] }

InitSeq ==
  /\ Construct
  /\ journal = [ origin |-> Some(state), updates |-> <<>>, flags |-> <<>>,
                 delivered |-> <<>> ]
  /\ store = None
  /\ Sequential

\* main.py 82: one more process_update call; the caller notes the update it
\* passed and the flag it got back, the listeners note what they were passed
submit(update) ==
  /\ Len(journal.updates) < MaxCalls
  /\ process_update(update)
  /\ journal' = [ journal EXCEPT
                    !.updates = Append(@, update),
                    !.flags = Append(@, call'.ret),
                    !.delivered = @ \o [ i \in 1..Len(call'.invoked) |->
                                         [ listener |-> call'.invoked[i].listener,
                                           update |-> call'.invoked[i].update ] ] ]
  /\ UNCHANGED <<store, producer, threads, stack, apart>>

NextSeq == \E update \in SeqUpdates : submit(update)

SpecSeq == InitSeq /\ [][NextSeq]_vars

\* ---- an engine and its store, used side by side --------------------------
\* The engine was given the store; a client also calls the store directly.
InitStore ==
  /\ \E initial_state \in {None} \cup { Some(s) : s \in GameState } :
       LET c == Constructed(initial_state, TRUE) IN
         /\ state = c.state
         /\ listeners = c.listeners
         /\ last_update = c.last_update
         /\ call = c.call
  /\ journal = NoJournal
  /\ store = None
  /\ Sequential

\* process_update on an engine whose persistence listener writes to the
\* store: each invocation of the lambda of state_manager.py 40 is a save
process_update_with_store(update) ==
  /\ process_update(update)
  /\ store' = Saved(store, call'.invoked)

NextStore ==
  \/ \E update \in StateUpdate :
       process_update_with_store(update) /\ UNCHANGED <<journal, producer, threads, stack, apart>>
  \/ \E st \in GameState : save(st) /\ UNCHANGED <<journal, producer, threads, stack, apart>>
  \/ load /\ UNCHANGED <<journal, producer, threads, stack, apart>>
  \/ delete /\ UNCHANGED <<journal, producer, threads, stack, apart>>

SpecStore == InitStore /\ [][NextStore]_vars

\* ---- a producer and the Update objects it builds -------------------------
\* models.py 16-19: name is any str and quantity any int, so an Update is
\* accepted with an item whose name is empty or whose quantity is below 1
AcceptedItems ==
  { RuneArc, [name |-> "", quantity |-> 1], [name |-> "Flask", quantity |-> 0] }

AcceptedLists == { <<>> } \cup { <<item>> : item \in AcceptedItems }

AcceptedUpdates ==
  [ update_type : {"location", "inventory", "both"},
    new_location : {None, Some("Limgrave")},
    inventory_items : {None} \cup { Some(s) : s \in AcceptedLists },
    reasoning : {"seen"} ]

\* models.py 67-69: `self.inventory = update.inventory_items` makes the
\* update's list object State.inventory; no copy is taken
AssignsItems(update) ==
  update.update_type \in {"inventory", "both"} /\ update.inventory_items # None

InitProducer == Construct /\ journal = NoJournal /\ store = None /\ Sequential

\* main.py 77-82: a new Update object, the (producer.id + 1)-th, is handed to
\* process_update and the producer keeps it.  producer.bound is the number
\* of the Update whose list State.inventory is (0: the list State was
\* constructed with).
hand_over(update) ==
  /\ producer.id < MaxCalls
  /\ process_update(update)
  /\ producer' = [ update |-> Some(update),
                   id |-> producer.id + 1,
                   bound |-> IF AssignsItems(update) THEN producer.id + 1
                             ELSE producer.bound ]
  /\ UNCHANGED <<journal, store, threads, stack, apart>>

\* the producer changes the items list of the Update it holds in place
\* (append, del, item assignment): every name bound to that list object
\* shows the change
edit_items(items) ==
  /\ producer.update # None
  /\ Get(producer.update).inventory_items \notin {None, Some(items)}
  /\ producer' = [ producer EXCEPT
                     !.update = Some([ Get(producer.update) EXCEPT
                                         !.inventory_items = Some(items) ]) ]
  /\ state' = IF producer.bound = producer.id
              THEN [ state EXCEPT !.inventory = items ] ELSE state
  /\ UNCHANGED <<listeners, last_update, call, journal, store, threads, stack, apart>>

NextProducer ==
  \/ \E update \in AcceptedUpdates : hand_over(update)
  \/ \E items \in AcceptedLists : edit_items(items)

SpecProducer == InitProducer /\ [][NextProducer]_vars

\* ---- listeners that call the engine from inside their callback ----------
\* One thread.  A process_update call that reported a change stays on the
\* stack while its loop (state_manager.py 97-101) runs; the loop is a list
\* iterator over self._listeners itself: it holds an index into the live
\* list and ends when the index reaches the list's current length.
ReentrantCallbacks == {"L1", "L2"}

\* the updates of these runs: a location and an inventory
ReentrantUpdates ==
  { u \in SeqUpdates : u.update_type \in {"location", "inventory"} }

\* what the body of a user callback does before it returns: nothing, or one
\* call on the engine it was registered with
Bodies ==
  { [ does |-> "return", update |-> NoUpdate, callback |-> "" ] }
    \cup { [ does |-> "process_update", update |-> u, callback |-> "" ] : u \in ReentrantUpdates }
    \cup { [ does |-> d, update |-> NoUpdate, callback |-> c ] :
             d \in {"add_listener", "remove_listener"}, c \in ReentrantCallbacks }

\* the persistence lambda only saves
BodiesOf(listener) ==
  IF listener = "redis_save" THEN { b \in Bodies : b.does = "return" } ELSE Bodies

\* the call entered at lines 84-87 with a change reported: its update, the
\* State its merge left, its number among the applied updates, the list
\* index of its iterator, the registry as the round found it, the listeners
\* invoked and the callbacks added and removed while the round was running
Frame(update, st, n, ls) ==
  [ update |-> update, applied |-> st, seq |-> n, i |-> 0, registered |-> ls,
    invoked |-> <<>>, added |-> {}, removed |-> {} ]

Top == stack[Len(stack)]

InitReentrant ==
  /\ \E redis_store \in BOOLEAN :
       LET c == Constructed(None, redis_store) IN
         /\ state = c.state
         /\ listeners = c.listeners
         /\ last_update = c.last_update
         /\ call = c.call
  /\ journal = [ origin |-> Some(state), updates |-> <<>>, flags |-> <<>>,
                 delivered |-> <<>> ]
  /\ store = None
  /\ Sequential

\* lines 78-87 of a process_update(update) call made with `frames` in
\* progress: the merge, and on a change the timestamp and a new frame
Enter(frames, update, now) ==
  LET r == apply_update(state, update)
      changed == update.update_type # "noop" /\ r.changed
  IN /\ state' = IF changed THEN r.state ELSE state
     /\ last_update' = IF changed THEN Some(now) ELSE last_update
     /\ stack' = IF changed
                 THEN Append(frames, Frame(update, r.state,
                                           Len(journal.updates) + 1, listeners))
                 ELSE frames
     /\ call' = IF changed THEN call
                ELSE Outcome("process_update", update, FALSE, FALSE, <<>>, "none")

\* a caller outside any callback calls process_update
begin(update) ==
  /\ stack = <<>>
  /\ Len(journal.updates) < MaxCalls
  /\ \E now \in Readings(state, update) : Enter(stack, update, now)
  /\ journal' = IF stack' # stack
                THEN [ journal EXCEPT !.updates = Append(@, update) ] ELSE journal
  /\ UNCHANGED <<listeners, store, producer, threads, apart>>

\* registration outside any callback
register(callback) ==
  /\ stack = <<>>
  /\ add_listener(callback)
  /\ UNCHANGED <<journal, store, producer, threads, stack, apart>>

\* lines 97-99: the iterator yields the listener at its index and moves on;
\* the listener is called with (self.state, update) and its body runs.  A
\* ValueError of remove_listener inside the body is caught at line 100.
dispatch(body) ==
  /\ stack # <<>>
  /\ Top.i < Len(listeners)
  /\ LET listener == listeners[Top.i + 1]
         frame == [ Top EXCEPT !.i = @ + 1, !.invoked = Append(@, listener) ]
         frames == [ k \in 1..Len(stack) |->
                     [ (IF k = Len(stack) THEN frame ELSE stack[k]) EXCEPT
                         !.added = IF body.does = "add_listener"
                                   THEN @ \cup {body.callback} ELSE @,
                         !.removed = IF body.does = "remove_listener"
                                     THEN @ \cup {body.callback} ELSE @ ] ]
         note == [ listener |-> listener, update |-> Top.update, seq |-> Top.seq,
                   state |-> state, applied |-> Top.applied ]
     IN /\ body \in BodiesOf(listener)
        /\ CASE body.does = "return" ->
                  /\ stack' = frames
                  /\ journal' = [ journal EXCEPT !.delivered = Append(@, note) ]
                  /\ UNCHANGED <<state, listeners, last_update, call>>
             [] body.does = "process_update" ->
                  /\ Len(stack) < MaxDepth
                  /\ Len(journal.updates) < MaxCalls
                  /\ \E now \in Readings(state, body.update) :
                       Enter(frames, body.update, now)
                  /\ journal' = [ journal EXCEPT
                                    !.delivered = Append(@, note),
                                    !.updates = IF Len(stack') > Len(stack)
                                                THEN Append(@, body.update) ELSE @ ]
                  /\ UNCHANGED listeners
             [] body.does = "add_listener" ->
                  /\ Len(listeners) < MaxListeners
                  /\ listeners' = Append(listeners, body.callback)
                  /\ stack' = frames
                  /\ journal' = [ journal EXCEPT !.delivered = Append(@, note) ]
                  /\ UNCHANGED <<state, last_update, call>>
             [] body.does = "remove_listener" ->
                  /\ listeners' = IF \E k \in 1..Len(listeners) :
                                       listeners[k] = body.callback
                                  THEN RemoveFirst(listeners, body.callback)
                                  ELSE listeners
                  /\ stack' = frames
                  /\ journal' = [ journal EXCEPT !.delivered = Append(@, note) ]
                  /\ UNCHANGED <<state, last_update, call>>
  /\ UNCHANGED <<store, producer, threads, apart>>

\* the iterator is exhausted: lines 104-106, the call returns True
finish ==
  /\ stack # <<>>
  /\ Top.i >= Len(listeners)
  /\ stack' = SubSeq(stack, 1, Len(stack) - 1)
  /\ call' = [ Outcome("process_update", Top.update, TRUE, TRUE, <<>>, "none")
                 EXCEPT !.args = Some(Top.invoked) ]
  /\ UNCHANGED <<state, listeners, last_update, journal, store, producer, threads, apart>>

NextReentrant ==
  \/ \E update \in ReentrantUpdates : begin(update)
  \/ \E callback \in ReentrantCallbacks : register(callback)
  \/ \E body \in Bodies : dispatch(body)
  \/ finish

SpecReentrant == InitReentrant /\ [][NextReentrant]_vars

\* ---- two producers calling process_update without a lock ----------------
\* Each thread runs process_update statement by statement; the interpreter
\* may switch threads between any two statements.  A thread's frame holds
\* its position, its update, its local `changed`, the index of its listener
\* loop and the number of its call.
Producers == {"A", "B"}

\* two BOTH updates that differ in location and in items
ThreadUpdates ==
  { [update_type |-> "both", new_location |-> Some("Limgrave"),
     inventory_items |-> Some(<<RuneArc>>), reasoning |-> "seen"],
    [update_type |-> "both", new_location |-> Some("Unknown"),
     inventory_items |-> Some(<<Flask, RuneArc>>), reasoning |-> "seen"] }

Idle == [ pc |-> "idle", update |-> NoUpdate, changed |-> FALSE, i |-> 0, seq |-> 0 ]

InitThreads ==
  /\ \E redis_store \in BOOLEAN :
       LET c == Constructed(None, redis_store) IN
         /\ state = c.state
         /\ listeners = c.listeners
         /\ last_update = c.last_update
         /\ call = c.call
  /\ journal = [ origin |-> Some(state), updates |-> <<>>, flags |-> <<>>,
                 delivered |-> <<>> ]
  /\ store = None
  /\ producer = NoProducer
  /\ stack = NoStack
  /\ agent = NoAgent /\ coach = NoCoach /\ ptt = NoPTT /\ recorder = NoRecorder
  /\ threads = [ t \in Producers |-> Idle ]

\* the calls in progress on other threads
Busy(t) == { o \in Producers \ {t} : threads[o].pc # "idle" }

\* line 78: the call starts (a NOOP returns at once).  journal.flags notes,
\* per call, whether it ran while another call was in progress.
thread_call(t, update) ==
  /\ threads[t].pc = "idle"
  /\ Len(journal.updates) < MaxCalls
  /\ threads' = [ threads EXCEPT ![t] =
                    [ pc |-> IF update.update_type = "noop" THEN "idle" ELSE "test_loc",
                      update |-> update, changed |-> FALSE, i |-> 0,
                      seq |-> Len(journal.updates) + 1 ] ]
  /\ journal' = [ journal EXCEPT
                    !.updates = Append(@, update),
                    !.flags = [ k \in 1..(Len(@) + 1) |->
                                IF k = Len(@) + 1 THEN Busy(t) # {}
                                ELSE @[k] \/ \E o \in Busy(t) : threads[o].seq = k ] ]
  /\ UNCHANGED <<state, listeners, last_update, call, store, producer, stack, apart>>

\* models.py 62-63: the tests that guard the location assignment
test_location(t) ==
  /\ threads[t].pc = "test_loc"
  /\ threads' = [ threads EXCEPT ![t].pc =
                    IF /\ threads[t].update.update_type \in {"location", "both"}
                       /\ Truthy(threads[t].update.new_location)
                       /\ Get(threads[t].update.new_location) # state.player_location
                    THEN "set_loc" ELSE "items" ]
  /\ UNCHANGED <<state, listeners, last_update, call, journal, store, producer, stack, apart>>

\* models.py 64-65
set_location(t) ==
  /\ threads[t].pc = "set_loc"
  /\ state' = [ state EXCEPT !.player_location = Get(threads[t].update.new_location) ]
  /\ threads' = [ threads EXCEPT ![t].pc = "items", ![t].changed = TRUE ]
  /\ UNCHANGED <<listeners, last_update, call, journal, store, producer, stack, apart>>

\* the items of the update never assigned
merge_items_skipped(t) ==
  /\ threads[t].pc = "items"
  /\ threads' = [ threads EXCEPT ![t].pc = "stamp",
                                 ![t].changed = @ \/ AssignsItems(threads[t].update) ]
  /\ UNCHANGED <<state, listeners, last_update, call, journal, store, producer, stack, apart>>

\* models.py 67-70: the tests read the update only, then the assignment
merge_items(t) ==
  /\ threads[t].pc = "items"
  /\ state' = IF AssignsItems(threads[t].update)
              THEN [ state EXCEPT !.inventory = Get(threads[t].update.inventory_items) ]
              ELSE state
  /\ threads' = [ threads EXCEPT ![t].pc = "stamp",
                                 ![t].changed = @ \/ AssignsItems(threads[t].update) ]
  /\ UNCHANGED <<listeners, last_update, call, journal, store, producer, stack, apart>>

\* state_manager.py 86-87: the timestamp on a change; otherwise lines
\* 104-106, the call returns False
stamp(t) ==
  /\ threads[t].pc = "stamp"
  /\ IF threads[t].changed
     THEN /\ \E now \in 1..MaxClock : last_update' = Some(now)
          /\ threads' = [ threads EXCEPT ![t].pc = "loop" ]
          /\ UNCHANGED call
     ELSE /\ threads' = [ threads EXCEPT ![t] = Idle ]
          /\ call' = Outcome("process_update", threads[t].update, FALSE, FALSE,
                             <<>>, "none")
          /\ UNCHANGED last_update
  /\ UNCHANGED <<state, listeners, journal, store, producer, stack, apart>>

\* state_manager.py 97-99: the next listener is passed self.state as it is
\* at that moment
thread_notify(t) ==
  /\ threads[t].pc = "loop"
  /\ threads[t].i < Len(listeners)
  /\ threads' = [ threads EXCEPT ![t].i = @ + 1 ]
  /\ journal' = [ journal EXCEPT !.delivered =
                    Append(@, [ listener |-> listeners[threads[t].i + 1],
                                update |-> threads[t].update,
                                seq |-> threads[t].seq,
                                state |-> state ]) ]
  /\ UNCHANGED <<state, listeners, last_update, call, store, producer, stack, apart>>

\* state_manager.py 104-106: the loop is over, the call returns True
thread_return(t) ==
  /\ threads[t].pc = "loop"
  /\ threads[t].i >= Len(listeners)
  /\ threads' = [ threads EXCEPT ![t] = Idle ]
  /\ call' = Outcome("process_update", threads[t].update, TRUE, TRUE, <<>>, "none")
  /\ UNCHANGED <<state, listeners, last_update, journal, store, producer, stack, apart>>

NextThreads ==
  \E t \in Producers :
    \/ \E update \in ThreadUpdates : thread_call(t, update)
    \/ test_location(t)
    \/ set_location(t)
    \/ merge_items(t)
    \/ stamp(t)
    \/ thread_notify(t)
    \/ thread_return(t)

SpecThreads == InitThreads /\ [][NextThreads]_vars

\* ---- GameStateAgent: the tracking loop ------------------------------------
\* agent.pc is the line of main.py the main thread is at: "new" before
\* start(), "test" the while test of line 43, "capture" line 70, "analyze"
\* line 77, "process" line 82, "wait" the test of line 50, "sleep" line 51,
\* "done" line 53.  agent.frame counts the frames begun, agent.errors the
\* "Error processing frame" records of line 47, agent.raised says that the
\* frame last begun ended in the except clause, agent.stopped that the
\* signal handler has called stop() and agent.stopped_at where the main
\* thread was when it first did.
MaxFrames == 3

\* main.py 26: StateManager() with no initial state and no store
InitLoop ==
  /\ LET c == Constructed(None, FALSE) IN
       /\ state = c.state
       /\ listeners = c.listeners
       /\ last_update = c.last_update
       /\ call = c.call
  /\ journal = NoJournal /\ store = None /\ Sequential

\* analyzer.py 46-94: what analyze returns for the frames of the run, one
\* update of each kind
LoopUpdates ==
  { update \in StateUpdate : /\ update.new_location = Some("Limgrave")
                             /\ update.inventory_items = Some(<<RuneArc>>) }

\* the while test ignoring _running
while_test_ignores_running(running) == "capture"

\* main.py 43: `while self._running`
while_test(running) == IF running THEN "capture" ELSE "done"

\* main.py 50-51: the interval is slept only while running
interval_test(running) == IF running THEN "sleep" ELSE "test"

\* the exception of a frame leaving start(): no except clause
frame_raised_ends_loop(a) ==
  [a EXCEPT !.pc = "done", !.raised = TRUE, !.update = None]

\* main.py 46-47: the except clause logs the error; control goes on to
\* line 50
frame_raised(a) ==
  [a EXCEPT !.pc = "wait", !.errors = @ + 1, !.raised = TRUE, !.update = None]

\* main.py 84-90: the frame's timing record is logged and _process_frame
\* returns
frame_returned(a) == [a EXCEPT !.pc = "wait", !.update = None]

\* a listener is registered on agent.state_manager before the loop starts
agent_add_listener(callback) ==
  /\ agent.pc = "new"
  /\ add_listener(callback)
  /\ UNCHANGED <<journal, store, producer, threads, stack, apart>>

\* main.py 30-42: start() up to the loop
agent_start ==
  /\ agent.pc = "new"
  /\ agent' = [agent EXCEPT !.pc = "test", !.running = TRUE]
  /\ UNCHANGED <<state, listeners, last_update, call, journal, store, producer,
                 threads, stack, coach, ptt, recorder>>

\* main.py 43-45: the while test; a frame begins when it passes
loop_test ==
  /\ agent.pc = "test"
  /\ agent.running => agent.frame < MaxFrames
  /\ agent' = IF while_test(agent.running) = "capture"
              THEN [agent EXCEPT !.pc = "capture", !.frame = @ + 1, !.raised = FALSE]
              ELSE [agent EXCEPT !.pc = while_test(agent.running)]
  /\ UNCHANGED <<state, listeners, last_update, call, journal, store, producer,
                 threads, stack, coach, ptt, recorder>>

\* main.py 70: capture_base64 returns an image or raises
capture_base64 ==
  /\ agent.pc = "capture"
  /\ \E raises \in BOOLEAN :
       agent' = IF raises THEN frame_raised(agent)
                ELSE [agent EXCEPT !.pc = "analyze"]
  /\ UNCHANGED <<state, listeners, last_update, call, journal, store, producer,
                 threads, stack, coach, ptt, recorder>>

\* main.py 77: analyze returns a StateUpdate or raises
analyze ==
  /\ agent.pc = "analyze"
  /\ \/ agent' = frame_raised(agent)
     \/ \E update \in LoopUpdates :
          agent' = [agent EXCEPT !.pc = "process", !.update = Some(update)]
  /\ UNCHANGED <<state, listeners, last_update, call, journal, store, producer,
                 threads, stack, coach, ptt, recorder>>

\* main.py 82-90: the frame's process_update call
frame_process_update ==
  /\ agent.pc = "process"
  /\ process_update(Get(agent.update))
  /\ agent' = IF call'.raised = "none" THEN frame_returned(agent)
              ELSE frame_raised(agent)
  /\ UNCHANGED <<journal, store, producer, threads, stack, coach, ptt, recorder>>

\* main.py 50: the test before the sleep
interval ==
  /\ agent.pc = "wait"
  /\ agent' = [agent EXCEPT !.pc = interval_test(agent.running)]
  /\ UNCHANGED <<state, listeners, last_update, call, journal, store, producer,
                 threads, stack, coach, ptt, recorder>>

\* main.py 51: time.sleep returns
sleep ==
  /\ agent.pc = "sleep"
  /\ agent' = [agent EXCEPT !.pc = "test"]
  /\ UNCHANGED <<state, listeners, last_update, call, journal, store, producer,
                 threads, stack, coach, ptt, recorder>>

\* main.py 55-62: SIGINT or SIGTERM arrives once the handlers of lines 39-40
\* are installed; the handler runs on the main thread between two of its
\* steps and calls stop()
signal_handler ==
  /\ agent.pc # "new"
  /\ agent' = [agent EXCEPT !.running = FALSE, !.stopped = TRUE,
                            !.stopped_at = IF agent.stopped THEN @ ELSE agent.pc]
  /\ UNCHANGED <<state, listeners, last_update, call, journal, store, producer,
                 threads, stack, coach, ptt, recorder>>

\* the steps of the main thread inside start()
LoopStep ==
  \/ loop_test
  \/ capture_base64
  \/ analyze
  \/ frame_process_update
  \/ interval
  \/ sleep

NextLoop ==
  \/ \E callback \in UserCallbacks : agent_add_listener(callback)
  \/ agent_start
  \/ loop_test
  \/ capture_base64
  \/ analyze
  \/ frame_process_update
  \/ interval
  \/ sleep
  \/ signal_handler

SpecLoop == InitLoop /\ [][NextLoop]_vars

\* the main thread keeps executing: each call of the loop returns or raises
SpecLoopFair == SpecLoop /\ WF_vars(LoopStep)

\* ---- SemanticCache and Coach ----------------------------------------------
\* coach.max_history and coach.history are Coach._max_history and
\* Coach._history; coach.cache is Coach._cache: None, or the SemanticCache
\* with its _enabled flag and whether it holds a client; coach.entries are
\* the responses the LangCache service holds; coach.asked is what the last
\* call, of get_response or of the SemanticCache's search or store, was
\* given, did and returned.
MaxHistory == 2

\* semantic_cache.py 18: the default threshold 0.9, scores in hundredths
similarity_threshold == 90

Scores == {50, 90}

UserMessages == {" ", "how"}
Screenshots == {None, Some(""), Some("jpeg")}

\* str.strip on the messages of the run
Strip(message) == IF message = " " THEN "" ELSE message

\* what chat.completions.create does: it raises, or returns a message whose
\* content is None or a text
Completions ==
  { [raises |-> TRUE, content |-> None], [raises |-> FALSE, content |-> None],
    [raises |-> FALSE, content |-> Some("Roll")] }

\* what client.search does when the service holds `entries`: it raises, or
\* returns None, an empty dict, or a dict whose "score" is missing, a number
\* or something else and whose "response" is missing or a stored response
Replies(entries) ==
  { [NoReply EXCEPT !.kind = k] : k \in {"raise", "none", "empty"} }
    \cup { [ kind |-> "dict", score_kind |-> k, score |-> 0, response |-> r ] :
             k \in {"absent", "other"},
             r \in {None} \cup { Some(x) : x \in entries } }
    \cup { [ kind |-> "dict", score_kind |-> "number", score |-> s, response |-> r ] :
             s \in Scores, r \in {None} \cup { Some(x) : x \in entries } }

\* semantic_cache.py 13-56: _enabled is set only after the client was built
Caches == { [enabled |-> FALSE, client |-> FALSE], [enabled |-> TRUE, client |-> TRUE] }

\* search taking any result that carries a response
SearchResult_any_score(c, reply) ==
  IF ~c.enabled \/ ~c.client THEN [ ret |-> None, raised |-> FALSE ]
  ELSE IF reply.kind \in {"raise", "none", "empty"} THEN [ ret |-> None, raised |-> FALSE ]
  ELSE [ ret |-> reply.response, raised |-> FALSE ]

\* semantic_cache.py 63-88.  A falsy result is a miss; a score that is
\* not a number makes the comparison of line 78 raise TypeError, which the
\* except clause of line 86 catches along with the client's own exception.
SearchResult(c, reply) ==
  IF ~c.enabled \/ ~c.client THEN [ ret |-> None, raised |-> FALSE ]
  ELSE IF reply.kind = "raise" THEN [ ret |-> None, raised |-> FALSE ]
  ELSE IF reply.kind \in {"none", "empty"} THEN [ ret |-> None, raised |-> FALSE ]
  ELSE IF reply.score_kind = "other" THEN [ ret |-> None, raised |-> FALSE ]
  ELSE LET score == IF reply.score_kind = "absent" THEN 0 ELSE reply.score IN
         IF score >= similarity_threshold
         THEN [ ret |-> reply.response, raised |-> FALSE ]
         ELSE [ ret |-> None, raised |-> FALSE ]

\* semantic_cache.py 90-110
StoreResult(c, set_raises) ==
  IF ~c.enabled \/ ~c.client THEN [ ok |-> FALSE, raised |-> FALSE ]
  ELSE IF set_raises THEN [ ok |-> FALSE, raised |-> FALSE ]
  ELSE [ ok |-> TRUE, raised |-> FALSE ]

\* a history entry: its role, its text and whether an image goes with it
Message(role, text, image) == [ role |-> role, text |-> text, image |-> image ]

\* coach.py 156, 178: history[-n:], which for n = 0 is the whole list
LastN(history, n) ==
  IF n = 0 THEN history
  ELSE SubSeq(history, Len(history) - n + 1, Len(history))

\* coach.py 155-156, 177-178
Kept(history, max_history) ==
  IF Len(history) > max_history THEN LastN(history, max_history) ELSE history

\* the cache consulted whatever the request carries
UsesCache_any_request(c, screenshot) ==
  c.cache # None /\ Get(c.cache).enabled

\* coach.py 148, 199: `not screenshot and self._cache and self._cache.enabled`
UsesCache(c, screenshot) ==
  ~Truthy(screenshot) /\ c.cache # None /\ Get(c.cache).enabled

Fallback == "I didn't catch that. Could you repeat your question?"

\* coach.py 129-202: the Coach after get_response(user_message, screenshot)
\* when client.search gives `reply`, the LLM `completion` and client.set
\* raises or not
Response(c, user_message, screenshot, reply, completion, set_raises) ==
  LET given == [NoAsk EXCEPT !.op = "get_response", !.message = user_message,
                             !.screenshot = screenshot] IN
  IF Strip(user_message) = ""
  THEN [c EXCEPT !.asked = [given EXCEPT !.ret = Some(Fallback)]]
  ELSE
    LET uses == UsesCache(c, screenshot)
        found == IF uses THEN SearchResult(Get(c.cache), reply).ret ELSE None
    IN
    IF uses /\ Truthy(found)
    THEN [c EXCEPT
            !.history = Kept(c.history \o << Message("user", user_message, FALSE),
                                             Message("assistant", Get(found), FALSE) >>,
                             c.max_history),
            !.asked = [given EXCEPT !.searched = TRUE, !.found = found,
                                    !.ret = found]]
    ELSE
      LET sent == Kept(Append(c.history,
                              Message("user", user_message, Truthy(screenshot))),
                       c.max_history)
      IN
      IF completion.raises
      THEN [c EXCEPT
              !.history = sent,
              !.asked = [given EXCEPT !.searched = uses, !.found = found,
                                      !.llm_called = TRUE, !.raised = TRUE]]
      ELSE
        LET assistant_message ==
              IF Truthy(completion.content) THEN Get(completion.content) ELSE ""
            stored == uses /\ StoreResult(Get(c.cache), set_raises).ok
        IN [c EXCEPT
              !.history = Append(sent, Message("assistant", assistant_message, FALSE)),
              !.entries = IF stored THEN @ \cup {assistant_message} ELSE @,
              !.asked = [given EXCEPT !.searched = uses, !.found = found,
                                      !.llm_called = TRUE, !.stored = uses,
                                      !.ret = Some(assistant_message)]]

\* voice_agent/main.py 28, coach.py 99-127: a Coach with a history limit,
\* with no cache, a cache that is not configured or a working one
InitCoach ==
  /\ LET c == Constructed(None, FALSE) IN
       /\ state = c.state
       /\ listeners = c.listeners
       /\ last_update = c.last_update
       /\ call = c.call
  /\ journal = NoJournal /\ store = None
  /\ producer = NoProducer /\ threads = NoThreads /\ stack = NoStack
  /\ agent = NoAgent /\ ptt = NoPTT /\ recorder = NoRecorder
  /\ \E max_history \in 1..MaxHistory, cache \in {None} \cup { Some(k) : k \in Caches } :
       coach = [NoCoach EXCEPT !.max_history = max_history, !.cache = cache]

\* the client is called, and its outcomes vary, only when the cache is used
Asked(c, user_message, screenshot) ==
  Strip(user_message) # "" /\ UsesCache(c, screenshot)

get_response(user_message, screenshot) ==
  /\ \E reply \in IF Asked(coach, user_message, screenshot)
                   THEN Replies(coach.entries) ELSE {NoReply},
        completion \in IF Strip(user_message) # "" THEN Completions
                        ELSE {[raises |-> FALSE, content |-> None]},
        set_raises \in IF Asked(coach, user_message, screenshot)
                        THEN BOOLEAN ELSE {FALSE} :
       coach' = Response(coach, user_message, screenshot, reply, completion, set_raises)
  /\ UNCHANGED <<state, listeners, last_update, call, journal, store, producer,
                 threads, stack, agent, ptt, recorder>>

\* coach.py 204-206
clear_history ==
  /\ coach' = [coach EXCEPT !.history = <<>>,
                            !.asked = [NoAsk EXCEPT !.op = "clear_history"]]
  /\ UNCHANGED <<state, listeners, last_update, call, journal, store, producer,
                 threads, stack, agent, ptt, recorder>>

\* a call of search on the Coach's SemanticCache
search_call ==
  /\ coach.cache # None
  /\ \E reply \in Replies(coach.entries) :
       LET r == SearchResult(Get(coach.cache), reply) IN
         coach' = [coach EXCEPT !.asked =
                     [NoAsk EXCEPT !.op = "search", !.enabled = Get(coach.cache).enabled,
                                   !.reply = reply, !.ret = r.ret,
                                   !.raised = r.raised]]
  /\ UNCHANGED <<state, listeners, last_update, call, journal, store, producer,
                 threads, stack, agent, ptt, recorder>>

\* a call of store on the Coach's SemanticCache
store_call(response) ==
  /\ coach.cache # None
  /\ \E set_raises \in BOOLEAN :
       LET r == StoreResult(Get(coach.cache), set_raises) IN
         coach' = [coach EXCEPT
                     !.entries = IF r.ok THEN @ \cup {response} ELSE @,
                     !.asked =
                       [NoAsk EXCEPT !.op = "store", !.enabled = Get(coach.cache).enabled,
                                     !.set_raises = set_raises, !.ok = r.ok,
                                     !.raised = r.raised]]
  /\ UNCHANGED <<state, listeners, last_update, call, journal, store, producer,
                 threads, stack, agent, ptt, recorder>>

NextCoach ==
  \/ \E user_message \in UserMessages, screenshot \in Screenshots :
       get_response(user_message, screenshot)
  \/ clear_history
  \/ search_call
  \/ \E response \in {"Roll"} : store_call(response)

SpecCoach == InitCoach /\ [][NextCoach]_vars

\* ---- PTTHandler ------------------------------------------------------------
\* ptt.is_pressed is PTTHandler._is_pressed; ptt.listening says that the
\* keyboard listener runs; ptt.held are the keys that are physically down;
\* ptt.fired are the press and release callbacks fired so far, in order;
\* ptt.quit says that the quit callback was fired.  The three callbacks are
\* registered (voice_agent/main.py 35-37).
MaxFired == 4

Keys == {"alt_r", "esc", "a"}

\* ptt.py 18: the default PTT key
ptt_key == "alt_r"

\* ptt.py 37-42
handle_press(p, key) ==
  IF key = ptt_key /\ ~p.is_pressed
  THEN [p EXCEPT !.is_pressed = TRUE, !.fired = Append(@, "press")]
  ELSE p

\* ptt.py 44-54
handle_release(p, key) ==
  IF key = ptt_key
  THEN [p EXCEPT !.is_pressed = FALSE, !.fired = Append(@, "release")]
  ELSE IF key = "esc"
  THEN [p EXCEPT !.quit = TRUE, !.listening = FALSE]
  ELSE p

InitPTT ==
  /\ LET c == Constructed(None, FALSE) IN
       /\ state = c.state
       /\ listeners = c.listeners
       /\ last_update = c.last_update
       /\ call = c.call
  /\ journal = NoJournal /\ store = None
  /\ producer = NoProducer /\ threads = NoThreads /\ stack = NoStack
  /\ agent = NoAgent /\ coach = NoCoach /\ recorder = NoRecorder
  /\ ptt = NoPTT

\* a key goes down or up while nothing listens
key_moves(key) ==
  /\ ~ptt.listening
  /\ ptt' = [ptt EXCEPT !.held = IF key \in @ THEN @ \ {key} ELSE @ \cup {key}]
  /\ UNCHANGED <<state, listeners, last_update, call, journal, store, producer,
                 threads, stack, agent, coach, recorder>>

\* ptt.py 56-62: a listener starts, whatever keys are down at the time; it
\* may be started again after ESC has stopped it
ptt_start ==
  /\ ~ptt.listening
  /\ ptt' = [ptt EXCEPT !.listening = TRUE]
  /\ UNCHANGED <<state, listeners, last_update, call, journal, store, producer,
                 threads, stack, agent, coach, recorder>>

\* the listener delivers a press event: the key goes down, or it is down
\* and the keyboard repeats it
press_event(key) ==
  /\ ptt.listening
  /\ Len(ptt.fired) < MaxFired
  /\ ptt' = [handle_press(ptt, key) EXCEPT !.held = @ \cup {key}]
  /\ UNCHANGED <<state, listeners, last_update, call, journal, store, producer,
                 threads, stack, agent, coach, recorder>>

\* the listener delivers a release event: a key that was down goes up
release_event(key) ==
  /\ ptt.listening
  /\ Len(ptt.fired) < MaxFired
  /\ key \in ptt.held
  /\ ptt' = [handle_release(ptt, key) EXCEPT !.held = @ \ {key}]
  /\ UNCHANGED <<state, listeners, last_update, call, journal, store, producer,
                 threads, stack, agent, coach, recorder>>

NextPTT ==
  \/ \E key \in Keys : key_moves(key)
  \/ ptt_start
  \/ \E key \in Keys : press_event(key)
  \/ \E key \in Keys : release_event(key)

SpecPTT == InitPTT /\ [][NextPTT]_vars

\* ---- AudioRecorder ---------------------------------------------------------
\* recorder.recording, recorder.stream and recorder.chunks are _recording,
\* _stream (None, or the number of the stream) and _audio_chunks, each chunk
\* standing for the number of the start() call that was the latest when the
\* stream delivered it.  recorder.pc is where the calling thread is inside
\* start() or stop(); recorder.live are the input streams that run;
\* recorder.pending are the callbacks of the audio thread that have passed
\* the test of line 41 and not yet appended; recorder.starts counts the
\* start() calls and recorder.delivered the chunks delivered;
\* recorder.started says that start() was called since stop() last
\* returned; recorder.returned is what stop() last returned.
MaxStarts == 2
MaxChunks == 2

\* audio.py 72-86: b"" when there is no chunk, otherwise the WAV bytes of
\* the chunks; _audio_chunks is left as it is
StopResult(r) ==
  [r EXCEPT !.pc = "idle", !.started = FALSE,
            !.returned = Some([ empty |-> r.chunks = <<>>, frames |-> r.chunks,
                                recording |-> r.starts, started |-> r.started ])]

InitAudio ==
  /\ LET c == Constructed(None, FALSE) IN
       /\ state = c.state
       /\ listeners = c.listeners
       /\ last_update = c.last_update
       /\ call = c.call
  /\ journal = NoJournal /\ store = None
  /\ producer = NoProducer /\ threads = NoThreads /\ stack = NoStack
  /\ agent = NoAgent /\ coach = NoCoach /\ ptt = NoPTT
  /\ recorder = NoRecorder

\* audio.py 47-48: start() empties the chunks under the lock
start_clear ==
  /\ recorder.pc = "idle"
  /\ recorder.starts < MaxStarts
  /\ recorder' = [recorder EXCEPT !.pc = "start_flag", !.chunks = <<>>,
                                  !.starts = @ + 1, !.started = TRUE]
  /\ UNCHANGED <<state, listeners, last_update, call, journal, store, producer,
                 threads, stack, agent, coach, ptt>>

\* audio.py 49
start_flag ==
  /\ recorder.pc = "start_flag"
  /\ recorder' = [recorder EXCEPT !.pc = "start_open", !.recording = TRUE]
  /\ UNCHANGED <<state, listeners, last_update, call, journal, store, producer,
                 threads, stack, agent, coach, ptt>>

\* audio.py 50-57: a new stream runs and replaces what _stream held; a
\* stream that was held and never stopped loses its last reference here, and
\* either keeps running or ends with its callback
start_open ==
  /\ recorder.pc = "start_open"
  /\ \E keeps \in IF recorder.stream = None THEN {TRUE} ELSE BOOLEAN :
       recorder' =
         [recorder EXCEPT
            !.pc = "idle",
            !.stream = Some(recorder.starts),
            !.live = (IF keeps THEN @ ELSE @ \ recorder.stream) \cup {recorder.starts},
            !.pending = IF keeps THEN @
                        ELSE { p \in @ : Some(p.stream) # recorder.stream }]
  /\ UNCHANGED <<state, listeners, last_update, call, journal, store, producer,
                 threads, stack, agent, coach, ptt>>

\* audio.py 66
stop_flag ==
  /\ recorder.pc = "idle"
  /\ recorder' = [recorder EXCEPT !.pc = "stop_stream", !.recording = FALSE]
  /\ UNCHANGED <<state, listeners, last_update, call, journal, store, producer,
                 threads, stack, agent, coach, ptt>>

\* audio.py 67-70: stream.stop() returns once the stream's callback in
\* progress has finished
stop_stream ==
  /\ recorder.pc = "stop_stream"
  /\ \A p \in recorder.pending : Some(p.stream) # recorder.stream
  /\ recorder' = [recorder EXCEPT !.pc = "stop_read", !.stream = None,
                                  !.live = @ \ recorder.stream]
  /\ UNCHANGED <<state, listeners, last_update, call, journal, store, producer,
                 threads, stack, agent, coach, ptt>>

\* audio.py 72-86
stop_read ==
  /\ recorder.pc = "stop_read"
  /\ recorder' = StopResult(recorder)
  /\ UNCHANGED <<state, listeners, last_update, call, journal, store, producer,
                 threads, stack, agent, coach, ptt>>

\* audio.py 39-41: a running stream delivers a chunk and the callback tests
\* _recording
callback_test(s) ==
  /\ s \in recorder.live
  /\ recorder.delivered < MaxChunks
  /\ \A p \in recorder.pending : p.stream # s
  /\ recorder' = [recorder EXCEPT
                    !.delivered = @ + 1,
                    !.pending = IF recorder.recording
                                THEN @ \cup {[stream |-> s, chunk |-> recorder.starts]}
                                ELSE @]
  /\ UNCHANGED <<state, listeners, last_update, call, journal, store, producer,
                 threads, stack, agent, coach, ptt>>

\* audio.py 42-43: the callback appends the chunk under the lock
callback_append(p) ==
  /\ p \in recorder.pending
  /\ recorder' = [recorder EXCEPT !.pending = @ \ {p},
                                  !.chunks = Append(@, p.chunk)]
  /\ UNCHANGED <<state, listeners, last_update, call, journal, store, producer,
                 threads, stack, agent, coach, ptt>>

NextAudio ==
  \/ start_clear
  \/ start_flag
  \/ start_open
  \/ stop_flag
  \/ stop_stream
  \/ stop_read
  \/ \E s \in 1..MaxStarts : callback_test(s)
  \/ \E s \in 1..MaxStarts, chunk \in 1..MaxStarts :
       callback_append([stream |-> s, chunk |-> chunk])

SpecAudio == InitAudio /\ [][NextAudio]_vars

TypeOK ==
  /\ state \in GameState
  /\ listeners \in Seq(Callbacks) /\ Len(listeners) <= MaxListeners
  /\ last_update \in {None} \cup { Some(t) : t \in 1..MaxClock }
  /\ call.op \in {"__init__", "add_listener", "remove_listener", "process_update",
                   "get_state_summary", "save", "load", "delete"}
  /\ store \in {None} \cup { Some(model_dump_json(s)) : s \in GameState }
  /\ agent.pc \in {"new", "test", "capture", "analyze", "process", "wait", "sleep",
                   "done"}
  /\ agent.frame \in 0..MaxFrames /\ agent.errors <= agent.frame
  /\ coach.max_history \in 0..MaxHistory
  /\ Len(coach.history) <= coach.max_history + 1
  /\ coach.entries \subseteq {"", "Roll"}
  /\ ptt.held \subseteq Keys /\ Len(ptt.fired) <= MaxFired
  /\ recorder.pc \in {"idle", "start_flag", "start_open", "stop_stream", "stop_read"}
  /\ recorder.live \subseteq 1..MaxStarts /\ recorder.delivered \in 0..MaxChunks

\* ---- properties ---------------------------------------------------------
\* A step with call'.op = "process_update" is a process_update call: the
\* unprimed variables are the engine before the call, the primed ones the
\* engine after it, and call' is what the call was given, did and returned.
\* (A call that changes no variable at all repeats the call before it, on
\* the same engine and with the same outcome.)
Processed == call'.op = "process_update"

InvokedListeners(invoked) == [ i \in 1..Len(invoked) |-> invoked[i].listener ]

\* an update of kind INVENTORY or BOTH whose items sequence is present
ItemsBearing(update) ==
  update.update_type \in {"inventory", "both"} /\ update.inventory_items # None

\* C1: a NOOP update, whatever its payload, returns False, leaves State and
\* the last-changed timestamp as they were and invokes no listener.
C1_NoopChangesNothing ==
  [][ (Processed /\ call'.update.update_type = "noop")
        => /\ call'.ret = FALSE
           /\ state' = state
           /\ last_update' = last_update
           /\ ~call'.round
           /\ call'.invoked = <<>> ]_vars

\* a NOOP call carrying a location and items that both differ from State,
\* made with a listener registered
C1_Witness ==
  /\ call.op = "process_update"
  /\ call.update.update_type = "noop"
  /\ call.update.new_location = Some("Limgrave")
  /\ call.update.inventory_items = Some(<<RuneArc>>)
  /\ state = DefaultGameState
  /\ listeners # <<>>
  /\ ~call.ret

\* C2: a LOCATION update whose location is non-empty and differs from
\* State.location returns True, sets State.location to it, leaves State.items
\* alone and invokes every registered listener exactly once.
C2_LocationChange ==
  [][ ( /\ Processed
        /\ call'.update.update_type = "location"
        /\ Truthy(call'.update.new_location)
        /\ Get(call'.update.new_location) # state.player_location )
        => /\ call'.ret = TRUE
           /\ state'.player_location = Get(call'.update.new_location)
           /\ state'.inventory = state.inventory
           /\ call'.round
           /\ InvokedListeners(call'.invoked) = listeners ]_vars

\* a LOCATION call that returned True with two listeners registered; the
\* items it carried are not the inventory
C2_Witness ==
  /\ call.op = "process_update"
  /\ call.update.update_type = "location"
  /\ call.ret
  /\ state.player_location = "Limgrave"
  /\ call.update.new_location = Some("Limgrave")
  /\ call.update.inventory_items = Some(<<RuneArc>>)
  /\ state.inventory = <<Flask, RuneArc>>
  /\ Len(call.invoked) = 2

\* C3: a LOCATION update whose location equals State.location returns False,
\* leaves State unchanged and invokes no listener.
C3_SameLocation ==
  [][ ( /\ Processed
        /\ call'.update.update_type = "location"
        /\ call'.update.new_location = Some(state.player_location) )
        => /\ call'.ret = FALSE
           /\ state' = state
           /\ ~call'.round
           /\ call'.invoked = <<>> ]_vars

\* a LOCATION call naming the location State holds, which returned False
\* with listeners registered
C3_Witness ==
  /\ call.op = "process_update"
  /\ call.update.update_type = "location"
  /\ call.update.new_location = Some(state.player_location)
  /\ ~call.ret
  /\ ~call.repeated
  /\ Len(listeners) = 2

\* C4: an INVENTORY update with a present items sequence (the empty one
\* included) returns True, makes State.items exactly that sequence and leaves
\* State.location alone.
C4_InventoryReplace ==
  [][ ( /\ Processed
        /\ call'.update.update_type = "inventory"
        /\ call'.update.inventory_items # None )
        => /\ call'.ret = TRUE
           /\ state'.inventory = Get(call'.update.inventory_items)
           /\ state'.player_location = state.player_location ]_vars

\* an INVENTORY call with the explicit empty sequence, carrying a location
\* State does not take
C4_Witness ==
  /\ call.op = "process_update"
  /\ call.update.update_type = "inventory"
  /\ call.update.inventory_items = Some(<<>>)
  /\ call.update.new_location = Some("Limgrave")
  /\ call.ret
  /\ state = DefaultGameState

\* C5: for a BOTH update the location rule and the items rule apply
\* independently and the returned flag is their disjunction.
C5_BothIndependent ==
  [][ (Processed /\ call'.update.update_type = "both")
        => LET u == call'.update
               locRule == Truthy(u.new_location)
                            /\ Get(u.new_location) # state.player_location
               itemsRule == u.inventory_items # None
           IN /\ call'.ret = (locRule \/ itemsRule)
              /\ state'.player_location =
                   IF locRule THEN Get(u.new_location) ELSE state.player_location
              /\ state'.inventory =
                   IF itemsRule THEN Get(u.inventory_items) ELSE state.inventory ]_vars

\* a BOTH call with the empty location and present items: changed, items
\* applied, location kept
C5_Witness ==
  /\ call.op = "process_update"
  /\ call.update.update_type = "both"
  /\ call.update.new_location = Some("")
  /\ call.update.inventory_items = Some(<<Flask, RuneArc>>)
  /\ call.ret
  /\ state.inventory = <<Flask, RuneArc>>
  /\ state.player_location = "Limgrave"

\* the update's meaningful, present fields are what State holds
UpdateApplied(update, st) ==
  /\ ( update.update_type \in {"location", "both"} /\ Truthy(update.new_location) )
       => st.player_location = Get(update.new_location)
  /\ ItemsBearing(update) => st.inventory = Get(update.inventory_items)

\* C6: when listeners fail during a changing call, every registered listener
\* is still invoked exactly once, the call returns True and State holds the
\* applied merge.
C6_ListenerIsolation ==
  [][ (Processed /\ call'.errors > 0)
        => /\ InvokedListeners(call'.invoked) = listeners
           /\ call'.ret = TRUE
           /\ UpdateApplied(call'.update, state')
           /\ \A i \in 1..Len(call'.invoked) : call'.invoked[i].state = state' ]_vars

\* the first of two listeners raised, the second was invoked and returned
C6_Witness ==
  /\ call.op = "process_update"
  /\ Len(call.invoked) = 2
  /\ call.invoked[1].raised
  /\ ~call.invoked[2].raised
  /\ call.ret

\* C7: the same update given twice in a row, the first call having returned
\* True: the second call returns True exactly when the update carries a
\* present items sequence (INVENTORY, or BOTH with items), and then runs a
\* listener round again; a location-only update returns False.
C7_IdempotenceAsymmetry ==
  (call.op = "process_update" /\ call.repeated)
    => /\ call.ret = ItemsBearing(call.update)
       /\ call.round = ItemsBearing(call.update)
       /\ call.round => InvokedListeners(call.invoked) = listeners

\* the second of two identical location-only calls, the first of which
\* changed State
C7_Witness ==
  /\ call.op = "process_update"
  /\ call.repeated
  /\ call.update.update_type = "location"
  /\ call.update.new_location = Some("Limgrave")
  /\ ~call.ret

\* C8 as stated: a listener round occurs exactly when the State content
\* after the call differs from the content before it.
C8_Original ==
  [][ Processed => (call'.round <=> state' # state) ]_vars

\* C8 amended: a listener round occurs exactly when the State content
\* differs after the call or the update carries a present items sequence for
\* its kind (which counts as a change even when it equals the inventory).
C8_NotifiedOnReportedChange ==
  [][ Processed
        => (call'.round <=> (state' # state \/ ItemsBearing(call'.update))) ]_vars

\* the second of two identical inventory calls: State is what it was, and
\* the listeners ran again
C8_Witness ==
  /\ call.op = "process_update"
  /\ call.repeated
  /\ call.update.update_type = "inventory"
  /\ call.round
  /\ Len(call.invoked) = 2

\* C9: process_update returns True exactly when it ran a listener round,
\* whatever the listeners did; a call returning False leaves State, the
\* timestamp and the listeners untouched.
C9_ReturnAgreesWithRound ==
  [][ Processed
        => /\ call'.ret <=> call'.round
           /\ call'.ret => InvokedListeners(call'.invoked) = listeners
           /\ ~call'.ret => /\ state' = state
                            /\ last_update' = last_update
                            /\ listeners' = listeners
                            /\ call'.invoked = <<>> ]_vars

\* a call that returned True although both registered listeners raised
C9_Witness ==
  /\ call.op = "process_update"
  /\ call.ret
  /\ Len(listeners) = 2
  /\ call.errors = 2

\* C10: on a changing update the timestamp is recorded first; then every
\* registered listener is invoked once, in registration order, each with
\* State as it is after the whole merge and with the update.
C10_TimestampThenListeners ==
  [][ (Processed /\ call'.ret)
        => /\ last_update' # None
           /\ InvokedListeners(call'.invoked) = listeners
           /\ \A i \in 1..Len(call'.invoked) :
                /\ call'.invoked[i].last_update = last_update'
                /\ call'.invoked[i].state = state'
                /\ call'.invoked[i].update = call'.update ]_vars

\* a BOTH call that changed location and items, with the persistence
\* listener invoked before the listener registered after it
C10_Witness ==
  /\ call.op = "process_update"
  /\ call.update.update_type = "both"
  /\ call.update.new_location = Some("Limgrave")
  /\ call.update.inventory_items = Some(<<RuneArc>>)
  /\ InvokedListeners(call.invoked) = <<"redis_save", "L1">>
  /\ call.invoked[2].state = [player_location |-> "Limgrave", inventory |-> <<RuneArc>>]
  /\ last_update = Some(1)

\* C11: process_update never raises to its caller: whatever registered
\* listeners raise, the call ends with no exception and a boolean result.
C11_NeverRaises ==
  call.op = "process_update" => (call.raised = "none" /\ call.ret \in BOOLEAN)

\* a changing call whose only listener, the persistence one, raised
C11_Witness ==
  /\ call.op = "process_update"
  /\ InvokedListeners(call.invoked) = <<"redis_save">>
  /\ call.invoked[1].raised
  /\ call.raised = "none"
  /\ call.ret = TRUE

\* the merge rule as section 4.1 of the specification words it
MergeRule(st, update) ==
  LET locChanged == /\ update.update_type \in {"location", "both"}
                    /\ update.new_location \notin {None, Some(""), Some(st.player_location)}
      itemsChanged == /\ update.update_type \in {"inventory", "both"}
                      /\ update.inventory_items # None
  IN [ state |-> [ player_location |-> IF locChanged THEN Get(update.new_location)
                                       ELSE st.player_location,
                   inventory |-> IF itemsChanged THEN Get(update.inventory_items)
                                 ELSE st.inventory ],
       changed |-> locChanged \/ itemsChanged ]

\* the rule folded over a sequence of updates: the final state, the flags
\* and the updates that changed something, in order
RECURSIVE Fold(_, _)
Fold(st, updates) ==
  IF updates = <<>> THEN [ state |-> st, flags |-> <<>>, changing |-> <<>> ]
  ELSE LET m == MergeRule(st, Head(updates))
           rest == Fold(m.state, Tail(updates))
       IN [ state |-> rest.state,
            flags |-> <<m.changed>> \o rest.flags,
            changing |-> (IF m.changed THEN <<Head(updates)>> ELSE <<>>)
                           \o rest.changing ]

\* the updates a listener was passed, in the order it was passed them
DeliveredTo(listener) ==
  LET mine == SelectSeq(journal.delivered, LAMBDA d : d.listener = listener)
  IN [ i \in 1..Len(mine) |-> mine[i].update ]

\* C12: after any run of process_update calls the State and the returned
\* flags are those of folding the merge rule over the updates in call order,
\* and every listener has been passed exactly the changing updates, in call
\* order.
C12_AppliedInCallOrder ==
  journal.origin # None
    => LET f == Fold(Get(journal.origin), journal.updates) IN
         /\ state = f.state
         /\ journal.flags = f.flags
         /\ \A i \in 1..Len(listeners) : DeliveredTo(listeners[i]) = f.changing

\* the scenario: Unknown/[] then LOCATION Limgrave, INVENTORY [Rune Arc x1],
\* NOOP gives true, true, false and Limgrave/[Rune Arc x1]
C12_Witness ==
  /\ journal.origin = Some(DefaultGameState)
  /\ Len(journal.updates) = 3
  /\ journal.updates[1].update_type = "location"
  /\ journal.updates[2].update_type = "inventory"
  /\ journal.updates[3].update_type = "noop"
  /\ journal.flags = <<TRUE, TRUE, FALSE>>
  /\ state = [player_location |-> "Limgrave", inventory |-> <<RuneArc>>]
  /\ listeners = <<"redis_save">>
  /\ Len(journal.delivered) = 2

\* C13: the last-changed timestamp is absent after construction, whatever
\* initial_state was supplied; only a process_update call that returns True
\* modifies it, such a call leaves it present, and it is never cleared: it
\* is absent until a call has returned True and present from then on.
C13_TimestampOnlyOnChange ==
  /\ last_update = None
  /\ [][ /\ last_update' # last_update => (Processed /\ call'.ret = TRUE)
         /\ (Processed /\ call'.ret = TRUE) => last_update' # None
         /\ last_update # None => last_update' # None ]_vars

\* an engine restored from a stored state that has only seen a call
\* returning False: still no timestamp
C13_Witness ==
  /\ call.op = "process_update"
  /\ ~call.ret
  /\ state = [player_location |-> "Limgrave", inventory |-> <<Flask, RuneArc>>]
  /\ call.update.update_type = "noop"
  /\ last_update = None

\* C14: the timestamp a changing update records is never earlier than the
\* one an earlier changing update recorded, whatever datetime.now() reads.
C14_TimestampMonotonic ==
  [][ (last_update # None /\ last_update' # None)
        => Get(last_update') >= Get(last_update) ]_vars

\* C15: the engine starts with the initial_state it was constructed with,
\* or with location "Unknown" and no items when there was none; construction
\* invokes no listener.
C15_InitialState ==
  call.op = "__init__"
    => LET a == Get(call.args) IN
         /\ state = IF a.initial_state = None
                    THEN [player_location |-> "Unknown", inventory |-> <<>>]
                    ELSE Get(a.initial_state)
         /\ ~call.round
         /\ call.invoked = <<>>

\* an engine constructed with a restored state and a persistence store
C15_Witness ==
  /\ call.op = "__init__"
  /\ Get(call.args).initial_state =
       Some([player_location |-> "Limgrave", inventory |-> <<Flask, RuneArc>>])
  /\ Get(call.args).redis_store
  /\ state = [player_location |-> "Limgrave", inventory |-> <<Flask, RuneArc>>]
  /\ listeners = <<"redis_save">>

\* C16: a BOTH update with absent items leaves State.items as it was, and
\* returns True exactly when its location is non-empty and differs from
\* State.location, which then takes it.
C16_BothLocationOnly ==
  [][ ( /\ Processed
        /\ call'.update.update_type = "both"
        /\ call'.update.inventory_items = None )
        => LET differs == /\ Truthy(call'.update.new_location)
                          /\ Get(call'.update.new_location) # state.player_location
           IN /\ state'.inventory = state.inventory
              /\ call'.ret = differs
              /\ state'.player_location =
                   IF differs THEN Get(call'.update.new_location)
                   ELSE state.player_location ]_vars

\* a BOTH call without items that moved the player and kept a two-item
\* inventory
C16_Witness ==
  /\ call.op = "process_update"
  /\ call.update.update_type = "both"
  /\ call.update.inventory_items = None
  /\ call.update.new_location = Some("Limgrave")
  /\ call.ret
  /\ state = [player_location |-> "Limgrave", inventory |-> <<Flask, RuneArc>>]

\* the payload the update's kind calls for is absent (or the empty string)
PayloadMissing(update) ==
  \/ update.update_type = "location" /\ ~Truthy(update.new_location)
  \/ update.update_type = "inventory" /\ update.inventory_items = None
  \/ /\ update.update_type = "both"
     /\ ~Truthy(update.new_location)
     /\ update.inventory_items = None

\* C17: an update whose kind-relevant payload is missing returns False,
\* leaves State unchanged and invokes no listener; an explicit empty items
\* sequence is not missing: it is applied and the call returns True.
C17_MissingPayload ==
  [][ /\ (Processed /\ PayloadMissing(call'.update))
           => /\ call'.ret = FALSE
              /\ state' = state
              /\ ~call'.round
              /\ call'.invoked = <<>>
      /\ ( /\ Processed
           /\ call'.update.update_type \in {"inventory", "both"}
           /\ call'.update.inventory_items = Some(<<>>) )
           => /\ call'.ret = TRUE
              /\ state'.inventory = <<>> ]_vars

\* a LOCATION call with the empty string for a location, carrying items,
\* made with a listener registered
C17_Witness ==
  /\ call.op = "process_update"
  /\ call.update.update_type = "location"
  /\ call.update.new_location = Some("")
  /\ call.update.inventory_items = Some(<<RuneArc>>)
  /\ ~call.ret
  /\ state = [player_location |-> "Limgrave", inventory |-> <<>>]
  /\ listeners = <<"L1">>

\* C18 as stated: remove_listener(fn) on a registered fn leaves fn
\* unregistered, so that no later update invokes it, and leaves every other
\* registration in place and in order.
C18_RemovedListenerGone ==
  [][ (call'.op = "remove_listener" /\ call'.raised = "none")
        => LET fn == Get(call'.args) IN
             /\ \A i \in 1..Len(listeners') : listeners'[i] # fn
             /\ listeners' = SelectSeq(listeners, LAMBDA l : l # fn) ]_vars

\* the strings the summary is to show for the items of the model
Shown(item) == IF item = RuneArc THEN "Rune Arc x1" ELSE "Flask x2"

\* C19: the summary projects the canonical state: its location, its count
\* (the number of items and of item strings), its item strings in inventory
\* order, a last-update field that is null exactly when the timestamp is
\* absent; computing it changes neither State, the timestamp nor the
\* listeners.
C19_SummaryProjection ==
  [][ call'.op = "get_state_summary"
        => LET summary == Get(call'.summary) IN
             /\ summary.location = state.player_location
             /\ summary.inventory_count = Len(state.inventory)
             /\ Len(summary.inventory_items) = Len(state.inventory)
             /\ \A i \in 1..Len(state.inventory) :
                  summary.inventory_items[i] = Shown(state.inventory[i])
             /\ (summary.last_update = None) <=> (last_update = None)
             /\ state' = state
             /\ last_update' = last_update
             /\ listeners' = listeners ]_vars

\* the summary of a two-item inventory with a timestamp recorded
C19_Witness ==
  /\ call.op = "get_state_summary"
  /\ state.inventory = <<Flask, RuneArc>>
  /\ Get(call.summary).inventory_items = <<"Flask x2", "Rune Arc x1">>
  /\ Get(call.summary).inventory_count = 2
  /\ last_update = Some(2)
  /\ Get(call.summary).last_update # None

\* C20: a field that is not meaningful for the update's kind is never
\* applied: the items of a LOCATION update leave State.items alone, the
\* location of an INVENTORY update leaves State.location alone.
\* C18 where fn is registered once: then the removal leaves no registration
\* of fn and keeps the others in order (the duplicate is the only failure).
C18_SingleRegistration ==
  [][ (/\ call'.op = "remove_listener" /\ call'.raised = "none"
       /\ Cardinality({ i \in 1..Len(listeners) : listeners[i] = Get(call'.args) }) = 1)
        => listeners' = SelectSeq(listeners, LAMBDA l : l # Get(call'.args)) ]_vars

C20_IrrelevantFieldIgnored ==
  [][ /\ (Processed /\ call'.update.update_type = "location")
           => state'.inventory = state.inventory
      /\ (Processed /\ call'.update.update_type = "inventory")
           => state'.player_location = state.player_location ]_vars

\* an INVENTORY call that carried another location: the items are applied,
\* the player has not moved
C20_Witness ==
  /\ call.op = "process_update"
  /\ call.update.update_type = "inventory"
  /\ call.update.new_location = Some("Limgrave")
  /\ call.update.inventory_items = Some(<<RuneArc>>)
  /\ call.ret
  /\ state = [player_location |-> "Unknown", inventory |-> <<RuneArc>>]

\* C23 as stated: a newly constructed engine has no listener, and
\* process_update invokes only listeners a caller registered with
\* add_listener (the callbacks a caller can pass are UserCallbacks).
C23_OnlyExplicitRegistration ==
  /\ call.op = "__init__" => listeners = <<>>
  /\ call.op = "process_update"
       => \A i \in 1..Len(call.invoked) : call.invoked[i].listener \in UserCallbacks

\* C23 as amended: a newly constructed engine holds no listener, except the
\* persistence listener when it was given a store; the registry changes
\* only by add_listener, which appends its argument, and by remove_listener,
\* which drops one registration of its argument; and process_update invokes
\* only listeners that are in the registry.
C23_RegistryByConstructionAndCalls ==
  /\ [](call.op = "__init__"
          => listeners = IF Get(call.args).redis_store THEN <<"redis_save">>
                         ELSE <<>>)
  /\ [][ /\ listeners' # listeners
             => \/ /\ call'.op = "add_listener"
                   /\ listeners' = Append(listeners, Get(call'.args))
                \/ /\ call'.op = "remove_listener"
                   /\ Len(listeners') = Len(listeners) - 1
                   /\ \A c \in Callbacks \ call'.args :
                        SelectSeq(listeners', LAMBDA l : l = c)
                          = SelectSeq(listeners, LAMBDA l : l = c)
         /\ Processed
             => \A i \in 1..Len(call'.invoked) :
                  \E k \in 1..Len(listeners) :
                    listeners[k] = call'.invoked[i].listener ]_vars

\* an engine given a store, with one listener added: a changing update
\* invoked the persistence listener and then the added one
C23_Witness ==
  /\ call.op = "process_update"
  /\ call.ret
  /\ InvokedListeners(call.invoked) = <<"redis_save", "L1">>
  /\ call.update.update_type = "location"
  /\ last_update = Some(1)

\* C24: every listener failure of a dispatch round is logged, one error
\* record per failing invocation, each failure is caught where it happened
\* and the call goes on to return.
C24_EveryFailureLogged ==
  [][ Processed
        => /\ call'.errors = Cardinality(Raised(call'.invoked))
           /\ \A i \in Raised(call'.invoked) : call'.invoked[i].caught
           /\ call'.raised = "none" ]_vars

\* a round in which both listeners failed: two error records, the call
\* returned True
C24_Witness ==
  /\ call.op = "process_update"
  /\ Len(call.invoked) = 2
  /\ call.invoked[1].raised /\ call.invoked[2].raised
  /\ call.errors = 2
  /\ call.raised = "none"
  /\ call.ret

\* C29: remove_listener given a callback that is not registered ends with
\* ValueError and leaves the registry, State and the timestamp as they were.
C29_RemoveUnregistered ==
  [][ ( /\ call'.op = "remove_listener"
        /\ \A i \in 1..Len(listeners) : listeners[i] # Get(call'.args) )
        => /\ call'.raised = "ValueError"
           /\ listeners' = listeners
           /\ state' = state
           /\ last_update' = last_update ]_vars

\* the callback removed from an engine that holds only the persistence
\* listener, after a changing update
C29_Witness ==
  /\ call.op = "remove_listener"
  /\ call.raised = "ValueError"
  /\ call.args = Some("L1")
  /\ listeners = <<"redis_save">>
  /\ state.player_location = "Limgrave"
  /\ last_update # None

\* C22: on an engine constructed with a store, a process_update call that
\* returns True and whose save succeeded leaves under the key the
\* serialization of the State it leaves (whatever was there before), and a
\* call that returns False leaves the store as it was.
C22_StoreFollowsState ==
  [][ (Processed /\ listeners # <<>> /\ listeners[1] = "redis_save")
        => /\ ( /\ call'.ret
                /\ \E i \in 1..Len(call'.invoked) :
                     /\ call'.invoked[i].listener = "redis_save"
                     /\ ~call'.invoked[i].raised )
                => store' = Some(model_dump_json(state'))
           /\ ~call'.ret => store' = store ]_vars

\* an inventory update saved over the text of an earlier state
C22_Witness ==
  /\ call.op = "process_update"
  /\ call.update.update_type = "inventory"
  /\ call.ret
  /\ ~call.invoked[1].raised
  /\ last_update = Some(2)
  /\ state = [player_location |-> "Limgrave", inventory |-> <<RuneArc>>]
  /\ store = Some(<< "{", "\"player_location\"", ":", "\"Limgrave\"", ",",
                     "\"inventory\"", ":", "[",
                     "{", "\"name\"", ":", "\"Rune Arc\"", ",",
                     "\"quantity\"", ":", "1", "}", "]", "}" >>)

\* C30: load right after save(s) returns s (also after further loads, which
\* write nothing); load returns None when nothing is stored and after a
\* delete; delete empties the key and returns True exactly when a value was
\* stored; a load after a process_update whose save succeeded returns State.
C30_StoreRoundTrip ==
  [][ /\ call'.op = "load"
        => /\ store' = store
           /\ call.op = "save" => (call'.value = call.args /\ call'.raised = "none")
           /\ call.op = "load" => call'.value = call.value
           /\ call.op = "delete" => call'.value = None
           /\ store = None => call'.value = None
           /\ ( /\ call.op = "process_update" /\ call.ret
                /\ ~call.invoked[1].raised )
                => call'.value = Some(state)
      /\ call'.op = "delete"
        => /\ store' = None
           /\ call'.ret = (store # None) ]_vars

\* a two-item state read back as it was saved
C30_Witness ==
  /\ call.op = "load"
  /\ call.value = Some([player_location |-> "Limgrave", inventory |-> <<Flask, RuneArc>>])
  /\ call.raised = "none"
  /\ state = DefaultGameState

\* C25 as stated: State.items changes only in a process_update call; what a
\* producer does to the Update object it handed over does not reach State.
C25_ItemsChangeOnlyByMerge ==
  [][ state'.inventory # state.inventory => producer'.id = producer.id + 1 ]_vars

\* C26 as stated: every item of State has a non-empty name and a quantity of
\* at least 1, whatever accepted updates were applied.
C26_ItemsWellFormed ==
  \A i \in 1..Len(state.inventory) :
    state.inventory[i].name # "" /\ state.inventory[i].quantity >= 1

\* C27 as stated: each listener is notified of the updates in the order in
\* which they were applied, and is passed a State that is the result of the
\* update it is notified of, re-entrant calls included.
C27_InOrderDelivery ==
  /\ \A j, k \in 1..Len(journal.delivered) :
       ( /\ j < k
         /\ journal.delivered[j].listener = journal.delivered[k].listener )
         => journal.delivered[j].seq <= journal.delivered[k].seq
  /\ \A k \in 1..Len(journal.delivered) :
       journal.delivered[k].state = journal.delivered[k].applied

Count(x, s) == Cardinality({ i \in 1..Len(s) : s[i] = x })

\* C28 as stated: when a round ends, every listener that was registered at
\* its start and was not removed during it has been invoked in it, once per
\* registration (more only if it was registered again meanwhile), whatever
\* the callbacks added or removed.
C28_RoundReachesEveryListener ==
  [][ (stack # <<>> /\ Len(stack') < Len(stack))
        => \A l \in { Top.registered[i] : i \in 1..Len(Top.registered) } \ Top.removed :
             /\ Count(l, Top.invoked) >= Count(l, Top.registered)
             /\ l \notin Top.added
                  => Count(l, Top.invoked) = Count(l, Top.registered) ]_vars

\* the State an update of kind BOTH with both fields present leaves
FullyApplied(update, st) ==
  /\ st.player_location = Get(update.new_location)
  /\ st.inventory = Get(update.inventory_items)

\* C21: the merge and the dispatch are not atomic, and only a lock makes
\* them so: a listener is passed a State that is not the result of its
\* update, and State is left mixing two updates, only by calls that ran
\* while another call was in progress.  A call that ran alone passes the
\* result of its update to every listener and leaves it in State.  (That
\* overlapping calls do reach such States is what C21_Witness shows.)
C21_TornOnlyByOverlap ==
  /\ \A k \in 1..Len(journal.delivered) :
       LET d == journal.delivered[k] IN
         ~journal.flags[d.seq] => FullyApplied(d.update, d.state)
  /\ ( /\ threads # NoThreads
       /\ \A t \in Producers : threads[t].pc = "idle"
       /\ journal.updates # <<>>
       /\ ~journal.flags[Len(journal.flags)] )
       => FullyApplied(journal.updates[Len(journal.updates)], state)

\* two BOTH updates were submitted without a lock and both calls have
\* returned: State holds the location of the first and the items of the
\* second, and a listener was passed, with the first update, a State that
\* is not its result
C21_Witness ==
  /\ threads # NoThreads
  /\ \A t \in Producers : threads[t].pc = "idle"
  /\ Len(journal.updates) = 2
  /\ journal.updates[1].new_location = Some("Limgrave")
  /\ journal.updates[1].inventory_items = Some(<<RuneArc>>)
  /\ journal.updates[2].new_location = Some("Unknown")
  /\ journal.updates[2].inventory_items = Some(<<Flask, RuneArc>>)
  /\ state = [player_location |-> "Limgrave", inventory |-> <<Flask, RuneArc>>]
  /\ \E k \in 1..Len(journal.delivered) :
       /\ journal.delivered[k].update = journal.updates[1]
       /\ ~FullyApplied(journal.delivered[k].update, journal.delivered[k].state)

\* a step on which capture_base64 or analyze raised
FrameRaised == agent.pc \in {"capture", "analyze"} /\ agent'.raised

\* the main thread moved on
Moved == agent'.pc # agent.pc

\* C31: when capturing or analysing a frame raises, the error is logged,
\* process_update is not called for the frame (State, the listeners, the
\* timestamp and the record of the last engine call stay as they were), and
\* the loop goes on: to the interval test, the sleep, the while test and,
\* unless stop() was called meanwhile, the capture of the next frame.
C31_FrameErrorKeepsLoop ==
  [][ /\ FrameRaised
         => /\ agent'.errors = agent.errors + 1
            /\ agent'.pc = "wait"
            /\ UNCHANGED <<state, listeners, last_update, call>>
      /\ (agent.raised /\ Moved /\ agent.running /\ agent.pc = "wait")
         => agent'.pc = "sleep" /\ UNCHANGED call
      /\ (agent.raised /\ Moved /\ agent.pc = "sleep")
         => agent'.pc = "test" /\ UNCHANGED call
      /\ (agent.raised /\ Moved /\ agent.running /\ agent.pc = "test")
         => /\ agent'.pc = "capture"
            /\ agent'.frame = agent.frame + 1
            /\ UNCHANGED call ]_vars

\* the first frame raised before any process_update call and the loop is
\* capturing the second frame, the engine still as constructed
C31_Witness ==
  /\ agent.pc = "capture"
  /\ agent.frame = 2
  /\ agent.errors = 1
  /\ call.op = "__init__"
  /\ state = DefaultGameState

\* C32: once the signal handler has called stop(), no new frame begins; a
\* frame in progress goes through its remaining steps, its process_update
\* call included, then the loop leaves without sleeping; and the loop
\* eventually terminates.
C32_GracefulShutdown ==
  /\ [][ agent.stopped
           => /\ agent'.frame = agent.frame
              /\ (Moved /\ agent.pc = "capture") => agent'.pc \in {"analyze", "wait"}
              /\ (Moved /\ agent.pc = "analyze") => agent'.pc \in {"process", "wait"}
              /\ (Moved /\ agent.pc = "process")
                 => /\ Processed
                    /\ call'.update = Get(agent.update)
                    /\ agent'.pc = "wait"
              /\ (Moved /\ agent.pc \in {"wait", "sleep"}) => agent'.pc = "test"
              /\ (Moved /\ agent.pc = "test") => agent'.pc = "done"
              /\ agent.pc = "done" => agent'.pc = "done" ]_vars
  /\ (agent.stopped ~> agent.pc = "done")

\* stop() arrived while the first frame was being captured; the frame went
\* on to a process_update call that changed State, and the loop has ended
\* without a second frame
C32_Witness ==
  /\ agent.stopped_at = "capture"
  /\ agent.pc = "done"
  /\ agent.frame = 1
  /\ call.op = "process_update"
  /\ call.ret

\* a step that is a get_response call: coach is the Coach before it, coach'
\* the Coach after it and coach'.asked what the call was given and did
Responded == coach'.asked.op = "get_response"

\* C33: the history never holds more than max_history messages.
C33_HistoryWithinLimit == Len(coach.history) <= coach.max_history

\* C34 as stated: a request with a screenshot neither searches nor writes
\* the cache, and whenever the search of a text-only request returns a
\* cached response, that response is returned, the LLM is not called and the
\* user message and the response are appended to the history (which is then
\* cut to max_history).
C34_EveryHitAnswers ==
  [][ Responded =>
        LET a == coach'.asked IN
          /\ Truthy(a.screenshot)
             => ~a.searched /\ ~a.stored /\ coach'.entries = coach.entries
          /\ (~Truthy(a.screenshot) /\ a.searched /\ a.found # None)
             => /\ a.ret = a.found
                /\ ~a.llm_called
                /\ coach'.history =
                     Kept(coach.history \o << Message("user", a.message, FALSE),
                                              Message("assistant", Get(a.found), FALSE) >>,
                          coach.max_history) ]_vars

\* C34, amended: the same for a cached response that is not the empty
\* string; an empty cached response is passed over and the LLM is asked.
C34_CacheOnlyForTextQueries ==
  [][ Responded =>
        LET a == coach'.asked IN
          /\ Truthy(a.screenshot)
             => ~a.searched /\ ~a.stored /\ coach'.entries = coach.entries
          /\ (~Truthy(a.screenshot) /\ a.searched /\ Truthy(a.found))
             => /\ a.ret = a.found
                /\ ~a.llm_called
                /\ coach'.history =
                     Kept(coach.history \o << Message("user", a.message, FALSE),
                                              Message("assistant", Get(a.found), FALSE) >>,
                          coach.max_history) ]_vars

\* a text-only request answered from the cache: both messages are the end
\* of the history and the LLM was not called
C34_Witness ==
  /\ coach.asked.op = "get_response"
  /\ coach.asked.screenshot = None
  /\ coach.asked.searched
  /\ coach.asked.found = Some("Roll")
  /\ coach.asked.ret = Some("Roll")
  /\ ~coach.asked.llm_called
  /\ Len(coach.history) = 2
  /\ coach.history[1] = Message("user", "how", FALSE)
  /\ coach.history[2] = Message("assistant", "Roll", FALSE)

\* the client returned a result whose score is a number at or above the
\* threshold
ScoredHit(a) ==
  /\ a.enabled
  /\ a.reply.kind = "dict"
  /\ a.reply.score_kind = "number"
  /\ a.reply.score >= similarity_threshold

\* C35: search never raises; it returns a response only when the cache is
\* enabled, the client call succeeded and the score is at least the
\* threshold, and then the response of the result; otherwise it returns
\* None.  store never raises and returns False when the cache is disabled
\* or the client call fails.
C35_CacheFailsQuietly ==
  LET a == coach.asked IN
    /\ a.op = "search"
       => /\ ~a.raised
          /\ a.ret # None => ScoredHit(a) /\ a.ret = a.reply.response
          /\ ~ScoredHit(a) => a.ret = None
    /\ a.op = "store"
       => /\ ~a.raised
          /\ (~a.enabled \/ a.set_raises) => ~a.ok

\* a search answered with a stored response whose score is exactly the
\* threshold
C35_Witness ==
  /\ coach.asked.op = "search"
  /\ coach.asked.enabled
  /\ coach.asked.reply.score = similarity_threshold
  /\ coach.asked.ret = Some("Roll")

\* C36: the press and release callbacks alternate, the first being a press:
\* a release callback is fired only when a press callback is unmatched.
C36_CallbacksAlternate ==
  \A i \in 1..Len(ptt.fired) :
    ptt.fired[i] = IF i % 2 = 1 THEN "press" ELSE "release"

\* C37: what stop() returns holds only chunks delivered since the most
\* recent start(), and a stop() with no start() since the previous stop()
\* returned gives the empty bytes.
C37_RecordingReturnedOnce ==
  recorder.returned # None
    => LET ret == Get(recorder.returned) IN
         /\ \A i \in 1..Len(ret.frames) : ret.frames[i] = ret.recording
         /\ ~ret.started => ret.empty
====
